---- MODULE Spec2Model ----
(***************************************************************************)
(* A model of HttpWeChatBot's action dispatcher                            *)
(* (wechatbot_client/action_manager/manager.py) and of its connection      *)
(* gateway (wechatbot_client/wechat/wechat.py).                            *)
(*                                                                         *)
(* Python values are tagged records, so that values of different Python    *)
(* types are different and can be compared:                                *)
(*   None -> [none |-> TRUE]      200 -> [int |-> 200]                      *)
(*   "ok" -> [str |-> "ok"]       {k: v} -> [dict |-> {<<k, v>>}]           *)
(*   [..] -> [list |-> <<..>>]    ActionResponse(kw..) -> [ActionResponse |-> kw] *)
(***************************************************************************)
EXTENDS Integers, Sequences, FiniteSets, TLC

\* ------------------------------------------------------------------ bounds

\* The most keyword parameters one modelled request carries.
MaxParams == 2

\* ---------------------------------------------------------- Python values

PyNone == [none |-> TRUE]
PyInt(n) == [int |-> n]
PyStr(s) == [str |-> s]
PyDict(pairs) == [dict |-> pairs]
PyList(seq) == [list |-> seq]

IsDict(v) == "dict" \in DOMAIN v
IsList(v) == "list" \in DOMAIN v

\* d[k] of a dict: KeyError when the key is missing.
HasKey(v, k) == IsDict(v) /\ \E pr \in v.dict : pr[1] = k
Subscript(v, k) == (CHOOSE pr \in v.dict : pr[1] = k)[2]

\* ------------------------------------------- the action dispatcher's names

\* The methods decorated with @add_action.
DeclaredActions ==
    { "send_message", "get_self_info", "get_user_info", "get_friend_list",
      "get_group_info", "get_group_list", "get_group_member_info",
      "get_group_member_list", "set_group_name", "leave_group" }

\* The other methods of ApiManager that a request can name.
OtherMethods == { "close", "get_wxid" }

\* Instance attributes that are not callable.
DataAttributes == { "com_api" }

\* Names that are no attribute of the manager at all.
UnknownNames == { "delete_universe", "" }

ActionNames == DeclaredActions \cup OtherMethods \cup DataAttributes \cup UnknownNames

\* The keyword names a request may carry, and their values.
ParamNames == { "detail_type", "message", "group_id", "user_id", "group_name", "bogus" }
ParamValues == { "a", "b" }

ParamSets ==
    UNION { [K -> ParamValues] : K \in { S \in SUBSET ParamNames : Cardinality(S) <= MaxParams } }

\* Each method's signature: required and optional keyword parameters.
Required(a) ==
    CASE a = "send_message" -> { "detail_type", "message" }
      [] a = "get_user_info" -> { "user_id" }
      [] a = "get_group_info" -> { "group_id" }
      [] a = "get_group_member_info" -> { "group_id", "user_id" }
      [] a = "get_group_member_list" -> { "group_id" }
      [] a = "set_group_name" -> { "group_id", "group_name" }
      [] a = "leave_group" -> { "group_id" }
      [] OTHER -> {}

Optional(a) ==
    IF a = "send_message" THEN { "user_id", "group_id" } ELSE {}

\* The call func(params as keywords) binds: no required parameter missing, no unknown keyword.
Binds(a, p) ==
    /\ Required(a) \subseteq DOMAIN p
    /\ DOMAIN p \subseteq Required(a) \cup Optional(a)

\* ------------------------------------------------- the automation capability

\* What one call on the capability (ComWechatApi) does: it raises, or it
\* returns one of these values. The capability is not part of this code, so
\* every shape a method below reads or misreads is a possible return value.
SelfInfo == PyDict({ <<"WxId", "abc">>, <<"Name", "Bot">> })
SelfInfoLower == PyDict({ <<"wxId", "abc">>, <<"name", "Bot">> })
UserInfo == PyDict({ <<"Name", "Al">>, <<"remark", "r">>, <<"name", "G">> })
MemberList == PyList(<< PyDict({ <<"wxid", "m1">>, <<"name", "M1">> }) >>)

ComReturns == { SelfInfo, SelfInfoLower, UserInfo, MemberList, PyNone }

ComOutcomes ==
    [ raises : {TRUE}, value : {PyNone} ] \cup [ raises : {FALSE}, value : ComReturns ]

Call(op, args) == [ op |-> op, args |-> args ]

\* The result of running a method body: the exception it raised ("none" when
\* it returned), its return value, and the calls it made on the capability.
Returned(v, calls) == [ exc |-> "none", ret |-> v, calls |-> calls ]
Raised(e, calls) == [ exc |-> e, ret |-> PyNone, calls |-> calls ]

\* ActionResponse(status="ok", retcode=200, data=data)
OkResponse(data) ==
    [ ActionResponse |-> [ status |-> PyStr("ok"), retcode |-> PyInt(200), data |-> data ] ]

\* A call on the capability that raised.
ComRaised(op, args) == Raised("ComError", << Call(op, args) >>)

get_self_info(p, com) ==
    LET calls == << Call("get_self_info", <<>>) >>
        body(info) ==
            IF ~IsDict(info) THEN Raised("TypeError", calls)
            ELSE IF ~(HasKey(info, "WxId") /\ HasKey(info, "Name")) THEN Raised("KeyError", calls)
            ELSE Returned(OkResponse(PyDict({ <<"user_id", Subscript(info, "WxId")>>,
                                               <<"user_name", Subscript(info, "Name")>>,
                                               <<"user_displayname", "">> })), calls)
    IN IF com.raises THEN ComRaised("get_self_info", <<>>) ELSE body(com.value)

get_user_info(p, com) ==
    LET calls == << Call("get_user_info", << p["user_id"] >>) >>
        body(info) ==
            IF ~IsDict(info) THEN Raised("TypeError", calls)
            ELSE IF ~(HasKey(info, "Name") /\ HasKey(info, "remark")) THEN Raised("KeyError", calls)
            ELSE Returned(OkResponse(PyDict({ <<"user_id", p["user_id"]>>,
                                               <<"user_name", Subscript(info, "Name")>>,
                                               <<"user_displayname", "">>,
                                               <<"user_remark", Subscript(info, "remark")>> })), calls)
    IN IF com.raises THEN ComRaised("get_user_info", << p["user_id"] >>) ELSE body(com.value)

get_friend_list(p, com) ==
    LET body(data) == Returned(OkResponse(data), << Call("get_friend_list", <<>>) >>)
    IN IF com.raises THEN ComRaised("get_friend_list", <<>>) ELSE body(com.value)

get_group_info(p, com) ==
    LET calls == << Call("get_user_info", << p["group_id"] >>) >>
        body(info) ==
            IF ~IsDict(info) THEN Raised("TypeError", calls)
            ELSE IF ~HasKey(info, "name") THEN Raised("KeyError", calls)
            ELSE Returned(OkResponse(PyDict({ <<"group_id", p["group_id"]>>,
                                               <<"group_name", Subscript(info, "name")>> })), calls)
    IN IF com.raises THEN ComRaised("get_user_info", << p["group_id"] >>) ELSE body(com.value)

get_group_list(p, com) ==
    LET body(data) == Returned(OkResponse(data), << Call("get_group_list", <<>>) >>)
    IN IF com.raises THEN ComRaised("get_group_list", <<>>) ELSE body(com.value)

get_group_member_info(p, com) ==
    LET calls == << Call("get_group_members", << p["group_id"] >>) >>
        body(info) ==
            IF ~IsDict(info) THEN Raised("TypeError", calls)
            ELSE IF ~HasKey(info, "name") THEN Raised("KeyError", calls)
            ELSE Returned(OkResponse(PyDict({ <<"user_id", p["user_id"]>>,
                                               <<"user_name", Subscript(info, "name")>>,
                                               <<"user_displayname", "">> })), calls)
    IN IF com.raises THEN ComRaised("get_group_members", << p["group_id"] >>) ELSE body(com.value)

\* Iterating a dict yields its keys (str), and member["wxid"] of a str is a
\* TypeError, as is iterating None.
get_group_member_list(p, com) ==
    LET calls == << Call("get_group_members", << p["group_id"] >>) >>
        body(info) ==
            IF ~IsList(info) THEN Raised("TypeError", calls)
            ELSE IF \E i \in 1..Len(info.list) :
                        ~(HasKey(info.list[i], "wxid") /\ HasKey(info.list[i], "name"))
                 THEN Raised("KeyError", calls)
            ELSE Returned(OkResponse(PyList(
                    [ i \in 1..Len(info.list) |->
                        PyDict({ <<"user_id", Subscript(info.list[i], "wxid")>>,
                                 <<"user_name", Subscript(info.list[i], "name")>>,
                                 <<"user_displayname", "">> }) ])), calls)
    IN IF com.raises THEN ComRaised("get_group_members", << p["group_id"] >>) ELSE body(com.value)

set_group_name(p, com) ==
    LET args == << p["group_id"], p["group_name"] >>
        body(ignored) == Returned(OkResponse(PyNone), << Call("set_group_name", args) >>)
    IN IF com.raises THEN ComRaised("set_group_name", args) ELSE body(com.value)

\* The capability's delete_groupmember is called without any argument.
leave_group(p, com) ==
    LET body(ignored) == Returned(OkResponse(PyNone), << Call("delete_groupmember", <<>>) >>)
    IN IF com.raises THEN ComRaised("delete_groupmember", <<>>) ELSE body(com.value)

\* The body is `pass`: no call on the capability, returns None.
send_message(p, com) == Returned(PyNone, <<>>)

close(p, com) ==
    LET body(ignored) == Returned(PyNone, << Call("close", <<>>) >>)
    IN IF com.raises THEN ComRaised("close", <<>>) ELSE body(com.value)

get_wxid(p, com) ==
    LET calls == << Call("get_self_info", <<>>) >>
        body(info) ==
            IF ~IsDict(info) THEN Raised("TypeError", calls)
            ELSE IF ~HasKey(info, "wxId") THEN Raised("KeyError", calls)
            ELSE Returned(PyStr(Subscript(info, "wxId")), calls)
    IN IF com.raises THEN ComRaised("get_self_info", <<>>) ELSE body(com.value)

\* The call of the attribute named a with request.params as keywords.
Invoke(a, p, com) ==
    IF a \in DataAttributes THEN Raised("TypeError", <<>>)
    ELSE IF ~Binds(a, p) THEN Raised("TypeError", <<>>)
    ELSE CASE a = "send_message" -> send_message(p, com)
           [] a = "get_self_info" -> get_self_info(p, com)
           [] a = "get_user_info" -> get_user_info(p, com)
           [] a = "get_friend_list" -> get_friend_list(p, com)
           [] a = "get_group_info" -> get_group_info(p, com)
           [] a = "get_group_list" -> get_group_list(p, com)
           [] a = "get_group_member_info" -> get_group_member_info(p, com)
           [] a = "get_group_member_list" -> get_group_member_list(p, com)
           [] a = "set_group_name" -> set_group_name(p, com)
           [] a = "leave_group" -> leave_group(p, com)
           [] a = "close" -> close(p, com)
           [] a = "get_wxid" -> get_wxid(p, com)

\* getattr(self, name) finds an attribute.
HasAttribute(a) == a \in DeclaredActions \cup OtherMethods \cup DataAttributes

\* `except Exception` of request: the exceptions it catches. Every exception
\* a method body raises here is an Exception.
CaughtOnlyKeyError(e) == e = "KeyError"
Caught(e) == e \in { "TypeError", "KeyError", "ComError" }

\* ActionResponse(status=500, msg=<internal service error>, data={})
ErrorResponse ==
    [ ActionResponse |-> [ status |-> PyInt(500), msg |-> PyStr("internal service error"),
                           data |-> PyDict({}) ] ]

\* ActionResponse(status=200, msg=<request succeeded>, data=result)
SuccessResponse(result) ==
    [ ActionResponse |-> [ status |-> PyInt(200), msg |-> PyStr("request succeeded"),
                           data |-> result ] ]

\* What request(request) does: the value it returns or the exception that
\* escapes it, the execution of the method it ran, and the calls made on the
\* capability.
NoExec == [ exc |-> "not run", ret |-> PyNone, calls |-> <<>> ]

RequestOutcome(a, p, com) ==
    IF ~HasAttribute(a)
    THEN [ kind |-> "raise", exc |-> "AttributeError", value |-> PyNone, exec |-> NoExec ]
    ELSE LET ex == Invoke(a, p, com)
         IN  IF ex.exc # "none"
             THEN IF Caught(ex.exc)
                  THEN [ kind |-> "return", exc |-> "none", value |-> ErrorResponse, exec |-> ex ]
                  ELSE [ kind |-> "raise", exc |-> ex.exc, value |-> PyNone, exec |-> ex ]
             ELSE [ kind |-> "return", exc |-> "none", value |-> SuccessResponse(ex.ret), exec |-> ex ]

\* ------------------------------------------------------------------ state

VARIABLES
    lastRequest,    \* the last ActionRequest handed to request, or none yet
    lastOutcome     \* what request did with it

dvars == << lastRequest, lastOutcome >>

NoRequest == [ action |-> "(none)", params |-> << >>, ran |-> FALSE ]

DispatchInit ==
    /\ lastRequest = NoRequest
    /\ lastOutcome = [ kind |-> "none", exc |-> "none", value |-> PyNone, exec |-> NoExec ]

\* ApiManager.request, on one request, with the capability behaving as com.
\* The manager keeps no state of its own between two requests, so one call
\* from the constructed state shows all that request does.
Request(a, p, com) ==
    /\ ~lastRequest.ran
    /\ lastRequest' = [ action |-> a, params |-> p, ran |-> TRUE ]
    /\ lastOutcome' = RequestOutcome(a, p, com)

DispatchNext ==
    \E a \in ActionNames, p \in ParamSets, com \in ComOutcomes : Request(a, p, com)


\* ------------------------------------------------ claims on the dispatcher

IsResponse(v) == "ActionResponse" \in DOMAIN v
StatusOf(v) == v.ActionResponse.status
DataOf(v) == v.ActionResponse.data

\* The payload an operation hands back: the data of the response it built,
\* or its bare return value (None for a void operation).
PayloadOf(ret) == IF IsResponse(ret) THEN DataOf(ret) ELSE ret

\* C1: a request naming anything but a declared action is answered with a
\* structured not-found response (status neither ok/200 nor the internal
\* error's 500), no call is made on the capability and nothing is raised.
C1_UnknownActionIsNotFound ==
    (lastRequest.ran /\ lastRequest.action \notin DeclaredActions) =>
        /\ lastOutcome.kind = "return"
        /\ IsResponse(lastOutcome.value)
        /\ StatusOf(lastOutcome.value) \notin { PyStr("ok"), PyInt(200), PyInt(500) }
        /\ lastOutcome.exec.calls = <<>>

\* C2: when the operation of a declared action raises, request returns the
\* internal-error response (status 500) and no exception escapes it.
C2_ExceptionBecomesInternalError ==
    (/\ lastRequest.ran
     /\ lastRequest.action \in DeclaredActions
     /\ lastOutcome.exec.exc \notin { "none", "not run" }) =>
        /\ lastOutcome.kind = "return"
        /\ lastOutcome.exc = "none"
        /\ IsResponse(lastOutcome.value)
        /\ StatusOf(lastOutcome.value) = PyInt(500)

\* C2's case: the capability raised under a declared action, a missing key
\* made another raise, and a third could not bind its parameters.
C2_Witness ==
    /\ lastRequest.ran
    /\ lastRequest.action = "get_user_info"
    /\ lastOutcome.exec.exc = "ComError"
    /\ lastOutcome.exec.calls # <<>>
    /\ lastOutcome.kind = "return"

\* C3: when a declared action succeeds the response has status "ok" and the
\* operation's return value as payload; get_self_info on a capability that
\* returns {WxId: "abc", Name: "Bot"} yields status ok and
\* data {user_id: "abc", user_name: "Bot", user_displayname: ""}.
C3_SuccessIsOkWithPayload ==
    (/\ lastRequest.ran
     /\ lastRequest.action \in DeclaredActions
     /\ lastOutcome.exec.exc = "none") =>
        /\ lastOutcome.kind = "return"
        /\ IsResponse(lastOutcome.value)
        /\ StatusOf(lastOutcome.value) = PyStr("ok")
        /\ DataOf(lastOutcome.value) = PayloadOf(lastOutcome.exec.ret)
        /\ (/\ lastRequest.action = "get_self_info"
            /\ lastOutcome.exec.calls = << Call("get_self_info", <<>>) >>
            /\ PayloadOf(lastOutcome.exec.ret) =
                   PyDict({ <<"user_id", "abc">>, <<"user_name", "Bot">>,
                            <<"user_displayname", "">> })) =>
               DataOf(lastOutcome.value) =
                   PyDict({ <<"user_id", "abc">>, <<"user_name", "Bot">>,
                            <<"user_displayname", "">> })

\* C15: a request whose action names another attribute of the manager than
\* a declared action (close, get_wxid, com_api) is answered as not found,
\* the attribute is not called and no call is made on the capability.
C15_OtherAttributesAreNotFound ==
    (lastRequest.ran /\ lastRequest.action \in OtherMethods \cup DataAttributes) =>
        /\ lastOutcome.kind = "return"
        /\ lastOutcome.value # ErrorResponse
        /\ ~(IsResponse(lastOutcome.value) /\ StatusOf(lastOutcome.value) = PyInt(200))
        /\ lastOutcome.exec = NoExec

\* What the code does in C15's case: getattr finds the attribute, request
\* calls it, and close reaches the capability.
C15_CloseIsInvoked ==
    (lastRequest.ran /\ lastRequest.action = "close" /\ lastRequest.params = << >>) =>
        /\ lastOutcome.exec.calls = << Call("close", <<>>) >>
        /\ lastOutcome.exec.exc = "none" => lastOutcome.value = SuccessResponse(PyNone)

\* C16: a request for a declared action whose parameters do not fit its
\* signature (a required one missing, an unknown one present) is answered
\* with a response that is not the internal-error response, and no call is
\* made on the capability.
C16_BadParametersAreInvalidParameters ==
    (/\ lastRequest.ran
     /\ lastRequest.action \in DeclaredActions
     /\ ~Binds(lastRequest.action, lastRequest.params)) =>
        /\ lastOutcome.kind = "return"
        /\ IsResponse(lastOutcome.value)
        /\ lastOutcome.value # ErrorResponse
        /\ lastOutcome.exec.calls = <<>>

\* What the code does in C16's case: the TypeError of the call is caught
\* like any other, and the response is the internal-error response.
C16_BadParametersAreInternalError ==
    (/\ lastRequest.ran
     /\ lastRequest.action \in DeclaredActions
     /\ ~Binds(lastRequest.action, lastRequest.params)) =>
        /\ lastOutcome.value = ErrorResponse
        /\ lastOutcome.exec = Raised("TypeError", <<>>)

\* str(e) of the exception an action raised
Cause(exec) == PyStr(exec.exc)

\* The response carries the value in its message or in its payload.
Carries(response, v) ==
    \/ response.ActionResponse.msg = v
    \/ response.ActionResponse.data = v
    \/ /\ IsDict(response.ActionResponse.data)
       /\ \E pr \in response.ActionResponse.data.dict : PyStr(pr[2]) = v

\* C17: the internal-error response produced when the execution of an
\* action raises carries the stringified cause of the exception.
C17_InternalErrorCarriesCause ==
    (/\ lastRequest.ran
     /\ lastOutcome.exec.exc \notin { "none", "not run" }
     /\ lastOutcome.kind = "return") =>
        Carries(lastOutcome.value, Cause(lastOutcome.exec))

\* C30: each group action forwards its parameters to the capability:
\* leave_group(group_id) makes one call whose only argument is that group
\* id, set_group_name(group_id, group_name) makes one call on set_group_name
\* with those two values, and when the capability succeeds each returns an
\* ok response with a null payload.
C30_GroupActionsForwardParameters ==
    (/\ lastRequest.ran
     /\ lastRequest.action \in { "leave_group", "set_group_name" }
     /\ Binds(lastRequest.action, lastRequest.params)) =>
        /\ Len(lastOutcome.exec.calls) = 1
        /\ lastRequest.action = "leave_group" =>
               lastOutcome.exec.calls[1].args = << lastRequest.params["group_id"] >>
        /\ lastRequest.action = "set_group_name" =>
               lastOutcome.exec.calls[1] =
                   Call("set_group_name", << lastRequest.params["group_id"],
                                             lastRequest.params["group_name"] >>)
        /\ lastOutcome.exec.exc = "none" => lastOutcome.exec.ret = OkResponse(PyNone)

\* What the code does in C30's case: set_group_name forwards both values,
\* leave_group calls delete_groupmember with no argument at all.
C30_LeaveGroupDropsGroupId ==
    (/\ lastRequest.ran
     /\ lastRequest.action \in { "leave_group", "set_group_name" }
     /\ Binds(lastRequest.action, lastRequest.params)) =>
        lastOutcome.exec.calls =
            IF lastRequest.action = "leave_group"
            THEN << Call("delete_groupmember", <<>>) >>
            ELSE << Call("set_group_name", << lastRequest.params["group_id"],
                                              lastRequest.params["group_name"] >>) >>

\* ===================================================== the connection gateway

\* The most sessions the driver registers in one run (ws_connect calls).
MaxSeq == 3
\* The most handle_event tasks pending on one session at a time.
MaxPending == 2

\* The close code _handle_ws sends to a websocket it rejects.
PolicyViolation == 1008
\* The close code of websocket.close() without arguments.
NormalClosure == 1000
\* The seconds _forward_ws sleeps before it connects again.
RECONNECT_INTERVAL == 3

\* Server-accepted websockets, and the forward targets of the configuration.
WebSockets == { "w1", "w2" }
GoodUrls == { "ws://a", "ws://b" }
BadUrls == { "ws://[bad" }

\* The Authorization header a websocket's upgrade request carries.
NoHeader == [ scheme |-> "(absent)", param |-> "" ]
Headers ==
    { NoHeader,
      [ scheme |-> "Bearer", param |-> "secret" ],
      [ scheme |-> "Bearer", param |-> "wrong" ],
      [ scheme |-> "Basic", param |-> "secret" ] }

\* The token of an Authorization header: the parameter of a Bearer header,
\* None ("" here, which is as falsy as None) otherwise.
get_auth_bearer(h) == IF h.scheme = "Bearer" THEN h.param ELSE ""

\* _check_access_token: TRUE when it returns the 403 response.
RejectsOnlyWrongToken(token, header) ==
    token # "" /\ get_auth_bearer(header) # "" /\ token # get_auth_bearer(header)
Rejects(token, header) ==
    token # "" /\ token # get_auth_bearer(header)

\* What `await ws.receive()` hands the read loop: an exception, or a frame,
\* text or binary, whose content is garbage (not JSON, not msgpack), a value
\* that is no mapping, a mapping no event model parses, or a mapping that
\* parses into an event (an action request among them).
Inputs ==
    { "WebSocketClosed", "ReceiveError",
      "text:garbage", "binary:garbage",
      "text:scalar", "binary:scalar",
      "text:unparsable", "binary:unparsable",
      "text:request", "binary:request" }

Garbage == { "text:garbage", "binary:garbage" }
NoEvent == { "text:scalar", "binary:scalar", "text:unparsable", "binary:unparsable" }
Requests == { "text:request", "binary:request" }

\* json_to_event on a decoded frame: TRUE when it returns an event. A value
\* that is not a dict gives None, and so does a dict that no model parses.
json_to_event(input) == input \in Requests

\* One turn of the read loop's try body: receive, decode, json_to_event.
\*   "closed"  receive raised WebSocketClosed
\*   "error"   receive, json.loads or msgpack.unpackb raised another exception
\*   "none"    the frame decoded and json_to_event returned None
\*   "event"   json_to_event returned an event
ReadTurn(input) ==
    CASE input = "WebSocketClosed" -> "closed"
      [] input = "ReceiveError" -> "error"
      [] input \in Garbage -> "error"
      [] json_to_event(input) -> "event"
      [] OTHER -> "none"

\* Where _forward_ws goes when `async with self.websocket(req)` raised: out of
\* the try statement, to the sleep at the end of the loop body.
RetryAtOnce == "connect"
AfterConnectFailure == "sleep"

\* The sessions a produced event is written to: the registered
\* server-accepted sessions; and those of them that get it when the writes to
\* `failed` fail: each write is on its own.
DeliveredUntilFailure(targets, failed) ==
    { c \in targets : \A f \in targets \cap failed : c.seq < f.seq }
Delivered(targets, failed) == targets \ failed

VARIABLES
    access_token,   \* config.onebot_access_token ("" when none is configured)
    onebot_ws_urls, \* config.onebot_ws_urls
    attrs,          \* the manager's instance attributes that hold tasks
    ws,             \* each server-accepted websocket
    fwd,            \* each _forward_ws task
    connections,    \* the driver's session set: ws_connect adds, ws_disconnect removes
    nextSeq,        \* the driver's next sequence id
    startLog,       \* what _start_forward did: not run, or the urls it logged as bad
    stopLog,        \* what _stop_forward did
    last,           \* the last step taken, and its input
    lastFanout,     \* the last fan-out
    driverLog       \* the seqs ws_connect gave out and those ws_disconnect was called
                    \* with, once and more than once

gvars == << access_token, onebot_ws_urls, attrs, ws, fwd, connections, nextSeq,
            startLog, stopLog, last, lastFanout, driverLog >>
\* the normalizer's: the last raw message handled, by which operation, and
\* what came of it
VARIABLE handled
nvars == << handled >>

vars == << dvars, gvars, nvars >>

NewWs == [ state |-> "new", header |-> NoHeader, seq |-> 0, closeCode |-> 0,
           alive |-> TRUE, pending |-> 0 ]
NoTask == [ pc |-> "none", origin |-> "none", seq |-> 0, waited |-> 0,
            failed |-> FALSE, cancel |-> FALSE ]

\* A step as `last` records it: the operation, the endpoint it ran on, its
\* input, its result, and whether it handed an event to handle_event.
Step(op, ep, input, result, handed) ==
    [ op |-> op, ep |-> ep, input |-> input, result |-> result, handed |-> handed ]

UrlLists == { <<>>, << "ws://a" >>, << "ws://a", "ws://[bad" >>, << "ws://a", "ws://b" >> }

Registered(ep) == \E c \in connections : c.ep = ep

\* driver.ws_connect and driver.ws_disconnect
ws_connect(ep) == connections \cup { [ seq |-> nextSeq, ep |-> ep ] }
ws_disconnect(seq) == { c \in connections : c.seq # seq }

\* The calls of the two, as driverLog records them.
LogConnect(seq) == [ driverLog EXCEPT !.connected = @ \cup { seq } ]
LogDisconnect(seq) ==
    [ driverLog EXCEPT !.disconnected = @ \cup { seq },
                       !.repeated = IF seq \in driverLog.disconnected
                                    THEN @ \cup { seq } ELSE @ ]

\* The finally clause of a read loop: the session set after it.
FinallyOnlyCloses(seq) == connections
Finally(seq) == ws_disconnect(seq)

\* Where _forward_ws goes when its read loop has ended: out of the
\* `async with` and to the sleep that closes the turn of `while True`.
ReadAgainAtOnce == "connect"
AfterReadFailure == "sleep"

\* _handle_ws up to its read loop: the token check, then either
\* close(1008) and return, or ws_connect.
HandleWsAccept(w, h) ==
    /\ ws[w].state = "new"
    /\ Rejects(access_token, h) \/ nextSeq <= MaxSeq
    /\ IF Rejects(access_token, h)
       THEN /\ ws' = [ ws EXCEPT ![w] = [ @ EXCEPT !.state = "rejected", !.header = h,
                                                   !.closeCode = PolicyViolation,
                                                   !.alive = FALSE ] ]
            /\ UNCHANGED << connections, nextSeq, driverLog >>
            /\ last' = Step("accept", w, "", "rejected", FALSE)
       ELSE /\ ws' = [ ws EXCEPT ![w] = [ @ EXCEPT !.state = "open", !.header = h,
                                                   !.seq = nextSeq ] ]
            /\ connections' = ws_connect(w)
            /\ driverLog' = LogConnect(nextSeq)
            /\ nextSeq' = nextSeq + 1
            /\ last' = Step("accept", w, "", "open", FALSE)
    /\ UNCHANGED << access_token, onebot_ws_urls, attrs, fwd, startLog, stopLog, lastFanout, dvars, nvars >>

\* One turn of _handle_ws's read loop, with what follows it when the loop ends:
\* the except clauses and the finally clause (close, ws_disconnect).
HandleWsTurn(w, input) ==
    /\ ws[w].state = "open"
    /\ ~ws[w].alive => input = "WebSocketClosed"
    /\ (ReadTurn(input) = "event") => ws[w].pending < MaxPending
    /\ LET r == ReadTurn(input)
       IN  /\ IF r \in { "closed", "error" }
              THEN /\ ws' = [ ws EXCEPT ![w] = [ @ EXCEPT !.state = "done", !.alive = FALSE, !.seq = 0,
                                                          !.closeCode = NormalClosure ] ]
                   /\ connections' = Finally(ws[w].seq)
                   /\ driverLog' = LogDisconnect(ws[w].seq)
              ELSE /\ ws' = [ ws EXCEPT ![w] = [ @ EXCEPT !.pending =
                                                    IF r = "event" THEN @ + 1 ELSE @ ] ]
                   /\ UNCHANGED << connections, driverLog >>
           /\ last' = Step("read", w, input, r, r = "event")
    /\ UNCHANGED << access_token, onebot_ws_urls, attrs, fwd, nextSeq, startLog, stopLog,
                    lastFanout, dvars, nvars >>

\* The task running _handle_ws is cancelled while its read loop awaits
\* receive: CancelledError is no Exception, so no except clause takes it,
\* and the finally clause runs (close, ws_disconnect).
HandleWsCancel(w) ==
    /\ ws[w].state = "open"
    /\ ws' = [ ws EXCEPT ![w] = [ @ EXCEPT !.state = "done", !.alive = FALSE, !.seq = 0,
                                           !.closeCode = NormalClosure ] ]
    /\ connections' = Finally(ws[w].seq)
    /\ driverLog' = LogDisconnect(ws[w].seq)
    /\ last' = Step("cancel", w, "", "cancelled", FALSE)
    /\ UNCHANGED << access_token, onebot_ws_urls, attrs, fwd, nextSeq, startLog, stopLog,
                    lastFanout, dvars, nvars >>

\* The tasks of a session that may be the next to complete, by their place
\* in arrival order among the n pending ones: the tasks are started with
\* create_task and not awaited, so any of them.
Completable(n) == 1..n

\* A handle_event task started by _handle_ws: the event is handed to the
\* action dispatcher and the response is written on the session it came from.
\* The step records the place in arrival order of the task that completes.
HandleEvent(w) ==
    /\ ws[w].pending > 0
    /\ \E k \in Completable(ws[w].pending) :
           last' = Step("handle_event", w, k,
                        IF Registered(w) /\ ws[w].alive THEN "response written"
                        ELSE "session gone", FALSE)
    /\ ws' = [ ws EXCEPT ![w] = [ @ EXCEPT !.pending = @ - 1 ] ]
    /\ UNCHANGED << access_token, onebot_ws_urls, attrs, fwd, connections, nextSeq, startLog,
                    stopLog, lastFanout, dvars, nvars, driverLog >>

\* Fan-out of one produced event: it is written to every registered
\* server-accepted session; a session whose write fails is closed.
FanOut(failed) ==
    LET targets == { c \in connections : c.ep \in WebSockets }
        bad == targets \cap failed
    IN  /\ targets # {}
        /\ failed \subseteq targets
        /\ lastFanout' = [ targets |-> targets, failed |-> bad,
                           delivered |-> Delivered(targets, bad) ]
        /\ connections' = connections \ bad
        /\ ws' = [ w \in WebSockets |->
                     IF \E c \in bad : c.ep = w THEN [ ws[w] EXCEPT !.alive = FALSE ] ELSE ws[w] ]
        /\ last' = Step("fanout", "", "", "", FALSE)
        /\ UNCHANGED << access_token, onebot_ws_urls, attrs, fwd, nextSeq, startLog, stopLog,
                        dvars, nvars, driverLog >>

\* The coroutine _forward_ws(url) is entered: it builds its request and
\* reaches the top of its loop.
ForwardWsEnter(u) ==
    /\ fwd[u].pc = "none"
    /\ fwd' = [ fwd EXCEPT ![u] = [ @ EXCEPT !.pc = "connect", !.origin = "direct" ] ]
    /\ last' = Step("enter", u, "", "", FALSE)
    /\ UNCHANGED << access_token, onebot_ws_urls, attrs, ws, connections, nextSeq, startLog,
                    stopLog, lastFanout, dvars, nvars, driverLog >>

\* The urls of a list that URL() accepts, in order; and those it refuses.
RECURSIVE WellFormed(_)
WellFormed(urls) ==
    IF urls = <<>> THEN <<>>
    ELSE IF Head(urls) \in BadUrls THEN WellFormed(Tail(urls))
    ELSE << Head(urls) >> \o WellFormed(Tail(urls))

SeqToSet(q) == { q[i] : i \in 1..Len(q) }

\* _start_forward. For each url, URL(url) raises on a malformed one; then
\* `self.tasks.append` is looked up before create_task is called, and the
\* AttributeError of a manager without `tasks` is caught and logged like a
\* bad url, with no task created.
StartForward ==
    /\ ~startLog.ran
    /\ IF "tasks" \in DOMAIN attrs
       THEN /\ attrs' = [ attrs EXCEPT !["tasks"] = @ \o WellFormed(onebot_ws_urls) ]
            /\ fwd' = [ u \in GoodUrls |->
                          IF u \in SeqToSet(onebot_ws_urls) /\ fwd[u].pc = "none"
                          THEN [ fwd[u] EXCEPT !.pc = "connect", !.origin = "start_forward" ]
                          ELSE fwd[u] ]
            /\ startLog' = [ ran |-> TRUE,
                             bad |-> SelectSeq(onebot_ws_urls, LAMBDA x : x \in BadUrls),
                             created |-> SeqToSet(WellFormed(onebot_ws_urls)) ]
       ELSE /\ startLog' = [ ran |-> TRUE, bad |-> onebot_ws_urls, created |-> {} ]
            /\ UNCHANGED << attrs, fwd >>
    /\ last' = Step("start_forward", "", "", "", FALSE)
    /\ UNCHANGED << access_token, onebot_ws_urls, ws, connections, nextSeq, stopLog,
                    lastFanout, dvars, nvars, driverLog >>

Running(t) == t.pc \in { "connect", "reading", "sleep" }

\* _stop_forward: `for task in self.tasks` raises AttributeError on a manager
\* without `tasks`; otherwise every task of the list that is not done is cancelled.
StopForward ==
    /\ stopLog = "not run"
    /\ IF "tasks" \in DOMAIN attrs
       THEN /\ stopLog' = "cancelled"
            /\ fwd' = [ u \in GoodUrls |->
                          IF u \in SeqToSet(attrs["tasks"]) /\ Running(fwd[u])
                          THEN [ fwd[u] EXCEPT !.cancel = TRUE ] ELSE fwd[u] ]
       ELSE /\ stopLog' = "AttributeError"
            /\ UNCHANGED fwd
    /\ last' = Step("stop_forward", "", "", "", FALSE)
    /\ UNCHANGED << access_token, onebot_ws_urls, attrs, ws, connections, nextSeq, startLog,
                    lastFanout, dvars, nvars, driverLog >>

\* `async with self.websocket(req) as ws`: the connection is established and
\* registered (ws_connect), or the attempt raises and the loop goes to its
\* sleep. A cancelled task gets CancelledError at this await and ends.
ForwardConnect(u, established) ==
    /\ fwd[u].pc = "connect"
    /\ established => nextSeq <= MaxSeq
    /\ IF fwd[u].cancel
       THEN /\ fwd' = [ fwd EXCEPT ![u] = [ @ EXCEPT !.pc = "done" ] ]
            /\ UNCHANGED << connections, nextSeq, driverLog >>
       ELSE IF established
       THEN /\ fwd' = [ fwd EXCEPT ![u] = [ @ EXCEPT !.pc = "reading", !.seq = nextSeq,
                                                     !.failed = FALSE, !.waited = 0 ] ]
            /\ connections' = ws_connect(u)
            /\ driverLog' = LogConnect(nextSeq)
            /\ nextSeq' = nextSeq + 1
       ELSE /\ fwd' = [ fwd EXCEPT ![u] = [ @ EXCEPT !.pc = AfterConnectFailure,
                                                     !.failed = TRUE, !.waited = 0 ] ]
            /\ UNCHANGED << connections, nextSeq, driverLog >>
    /\ last' = Step("connect", u, IF established THEN "established" ELSE "refused", "", FALSE)
    /\ UNCHANGED << access_token, onebot_ws_urls, attrs, ws, startLog, stopLog, lastFanout,
                    dvars, nvars >>

\* One turn of _forward_ws's read loop, with what follows it when the loop
\* ends: the except clauses, the finally clause (ws_disconnect) and the exit
\* of the `async with`. An event is not handed to anything: the loop goes on.
ForwardTurn(u, input) ==
    /\ fwd[u].pc = "reading"
    /\ LET r == ReadTurn(input)
       IN  /\ IF fwd[u].cancel
              THEN /\ fwd' = [ fwd EXCEPT ![u] = [ @ EXCEPT !.pc = "done" ] ]
                   /\ connections' = Finally(fwd[u].seq)
                   /\ driverLog' = LogDisconnect(fwd[u].seq)
              ELSE IF r \in { "closed", "error" }
              THEN /\ fwd' = [ fwd EXCEPT ![u] = [ @ EXCEPT !.pc = AfterReadFailure,
                                                            !.waited = 0 ] ]
                   /\ connections' = Finally(fwd[u].seq)
                   /\ driverLog' = LogDisconnect(fwd[u].seq)
              ELSE UNCHANGED << fwd, connections, driverLog >>
           /\ last' = Step("read", u, input, r, FALSE)
    /\ UNCHANGED << access_token, onebot_ws_urls, attrs, ws, nextSeq, startLog, stopLog,
                    lastFanout, dvars, nvars >>

\* await asyncio.sleep(RECONNECT_INTERVAL), then the next turn of `while True`.
ForwardSleep(u) ==
    /\ fwd[u].pc = "sleep"
    /\ IF fwd[u].cancel
       THEN fwd' = [ fwd EXCEPT ![u] = [ @ EXCEPT !.pc = "done" ] ]
       ELSE fwd' = [ fwd EXCEPT ![u] = [ @ EXCEPT !.pc = "connect",
                                                  !.waited = @ + RECONNECT_INTERVAL ] ]
    /\ last' = Step("sleep", u, "", "", FALSE)
    /\ UNCHANGED << access_token, onebot_ws_urls, attrs, ws, connections, nextSeq, startLog,
                    stopLog, lastFanout, dvars, nvars, driverLog >>

ServerNext(W) ==
    \/ \E w \in W, h \in Headers : HandleWsAccept(w, h)
    \/ \E w \in W, input \in Inputs : HandleWsTurn(w, input)
    \/ \E w \in W : HandleWsCancel(w)
    \/ \E w \in W : HandleEvent(w)
    \/ \E failed \in SUBSET connections : FanOut(failed)

ForwardNext(U) ==
    \/ \E u \in U : ForwardWsEnter(u)
    \/ \E u \in U, established \in BOOLEAN : ForwardConnect(u, established)
    \/ \E u \in U, input \in Inputs : ForwardTurn(u, input)
    \/ \E u \in U : ForwardSleep(u)

LifecycleNext ==
    \/ StartForward
    \/ StopForward

\* The gateway as constructed, with the configuration given. __init__ sets
\* self.task = []; the class only annotates `tasks`.
GatewayStartWith(tokens, lists, step) ==
    /\ access_token \in tokens
    /\ onebot_ws_urls \in lists
    /\ attrs = [ task |-> <<>> ]
    /\ ws = [ w \in WebSockets |-> NewWs ]
    /\ fwd = [ u \in GoodUrls |-> NoTask ]
    /\ connections = {}
    /\ nextSeq = 1
    /\ startLog = [ ran |-> FALSE, bad |-> <<>>, created |-> {} ]
    /\ stopLog = "not run"
    /\ last = step
    /\ lastFanout = [ targets |-> {}, failed |-> {}, delivered |-> {} ]
    /\ driverLog = [ connected |-> {}, disconnected |-> {}, repeated |-> {} ]

GatewayStart(tokens, lists) ==
    GatewayStartWith(tokens, lists, Step("init", "", "", "", FALSE))

\* ============================================================ normalizer
\* com_wechat/message.py: MessageHandler and the handlers it registers.

\* Longest text message, in characters.
MaxText == 6

\* A string is the sequence of its pieces. The text of a message is a
\* sequence of characters; a sender and the text of an XML element are
\* sequences of tokens, each token standing for the characters it spells.
Chars == { "@", "a", " " }
AliceHello == << "@", "A", "l", "i", "c", "e", " ", "h", "e", "l", "l", "o" >>
Texts == UNION { [ 1..n -> Chars ] : n \in 0..MaxText } \cup { AliceHello }

IsNone(v) == "none" \in DOMAIN v

\* <sub> in <string>
Contains(string, sub) == \E i \in 1..Len(string) : string[i] = sub

\* str.join of a list of strings, with the empty separator
RECURSIVE Join(_)
Join(parts) == IF parts = <<>> THEN <<>> ELSE Head(parts) \o Join(Tail(parts))

\* str.split(","): the fields between the commas, empty ones included
RECURSIVE SplitComma(_)
SplitComma(string) ==
    IF ~Contains(string, ",") THEN << string >>
    ELSE LET i == CHOOSE k \in 1..Len(string) :
                      string[k] = "," /\ \A m \in 1..(k - 1) : string[m] # ","
         IN << SubSeq(string, 1, i - 1) >> \o SplitComma(SubSeq(string, i + 1, Len(string)))

\* ------------------------------------------------ the regex (@[^@\s]+\s)

IsSpace(c) == c = " "
InName(c) == c # "@" /\ ~IsSpace(c)

\* The last index of the longest run of [^@\s] that starts at i; i - 1 when
\* the character at i is not one.
RunEnd(s, i) ==
    CHOOSE k \in (i - 1)..Len(s) :
        /\ \A m \in i..k : InName(s[m])
        /\ k = Len(s) \/ ~InName(s[k + 1])

\* The last index of the match of the regex that starts at i, 0 when there
\* is none: an "@", one or more [^@\s], one whitespace.
MatchEnd(s, i) ==
    IF s[i] # "@" THEN 0
    ELSE LET k == RunEnd(s, i + 1)
         IN IF k > i /\ k < Len(s) /\ IsSpace(s[k + 1]) THEN k + 1 ELSE 0

\* re.search(regex, s) is not None
re_search(s) == \E i \in 1..Len(s) : MatchEnd(s, i) > 0

\* re.split(regex, s): the regex has one capturing group, so the matches
\* are kept in the list, between the texts they separate.
RECURSIVE SplitFrom(_, _, _)
SplitFrom(s, start, i) ==
    IF i > Len(s) THEN << SubSeq(s, start, Len(s)) >>
    ELSE IF MatchEnd(s, i) > 0
         THEN << SubSeq(s, start, i - 1), SubSeq(s, i, MatchEnd(s, i)) >>
                  \o SplitFrom(s, MatchEnd(s, i) + 1, MatchEnd(s, i) + 1)
         ELSE SplitFrom(s, start, i + 1)

re_split(s) == SplitFrom(s, 1, 1)

\* --------------------------------------------------------- ElementTree

\* An element: its tag, text, children; attrib is the set of its
\* attributes, each a pair of name and value.
Element(tag, text, children) ==
    [ tag |-> tag, text |-> text, children |-> children, attrib |-> {} ]
WithAttrib(element, attrib) == [ element EXCEPT !.attrib = attrib ]

\* attrib[key] is there; attrib.get(key)
HasAttrib(element, key) == \E pr \in element.attrib : pr[1] = key
AttribGet(element, key) ==
    IF HasAttrib(element, key)
    THEN PyStr((CHOOSE pr \in element.attrib : pr[1] = key)[2])
    ELSE PyNone

\* A string handed to ET.fromstring: not well-formed, or the document of
\* a root element.
MalformedXml == [ wellformed |-> FALSE, root |-> PyNone ]
Xml(root) == [ wellformed |-> TRUE, root |-> root ]

\* Element.find of the path "./tag" (or "tag"): the first child of that
\* tag, None when there is none.
find(element, tag) ==
    LET hits == { i \in 1..Len(element.children) : element.children[i].tag = tag }
    IN IF hits = {} THEN PyNone
       ELSE element.children[CHOOSE i \in hits : \A j \in hits : i <= j]

\* ------------------------------------------------------------- pathlib

\* A path: the names of its directories and its last name, stem and
\* suffix apart. The empty string stands for no path.
Path(dir, name) == [ dir |-> dir, name |-> name ]
NoFilePath == Path(<<>>, << "", "" >>)
\* base / rel, and the f-string that joins the two with a slash
Under(base, rel) == Path(base \o rel.dir, rel.name)
Stem(path) == path.name[1]

\* The three directories the handler is constructed with.
image_path == << "data", "image" >>
voice_path == << "data", "voice" >>
wechat_path == << "C:", "WeChat Files" >>

\* The image files there are in the image directory.
ImageFiles == { Path(image_path, << "pic", "png" >>) }

\* FileManager.cache_file_id_from_path(path, name) and
\* cache_file_id_from_url(url, name): the id of the entry cached under
\* that name.
cache_file_id_from_path(path, name) == [ file_id |-> name ]
cache_file_id_from_url(url, name) == [ file_id |-> name ]

\* ------------------------------------------------------ segments, events

Image(file_id) == [ type |-> "image", data |-> file_id ]
Voice(file_id) == [ type |-> "voice", data |-> file_id ]
Video(file_id) == [ type |-> "video", data |-> file_id ]
File(file_id) == [ type |-> "file", data |-> file_id ]
Link(title, des, url, image) ==
    [ type |-> "link", data |-> [ title |-> title, des |-> des, url |-> url, image |-> image ] ]
Reply(message_id, user_id) ==
    [ type |-> "reply", data |-> [ message_id |-> message_id, user_id |-> user_id ] ]
App(app_id, title, url) ==
    [ type |-> "app", data |-> [ app_id |-> app_id, title |-> title, url |-> url ] ]
\* card and location segments, and the friend request, hold the attributes
\* they are built from
Card(attrib) == [ type |-> "card", data |-> attrib ]
Location(attrib) == [ type |-> "location", data |-> attrib ]
FriendRequestEvent(msg, attrib) == [ event |-> "FriendRequestEvent", attrib |-> attrib ]
GetGroupFileNotice(msg, file_name, md5) ==
    [ event |-> "GetGroupFileNotice", file_name |-> file_name, md5 |-> md5,
      user_id |-> msg.wxid, group_id |-> msg.sender ]
GetPrivateFileNotice(msg, file_name, md5) ==
    [ event |-> "GetPrivateFileNotice", file_name |-> file_name, md5 |-> md5,
      user_id |-> msg.wxid ]

Text(s) == [ type |-> "text", data |-> s ]
Mention(user_id) == [ type |-> "mention", data |-> user_id ]
MentionAll == [ type |-> "mention_all", data |-> <<>> ]

\* The events, by the fields the handlers derive from the raw message
\* (event id and copied time, self and message id are left out).
GroupMessageEvent(msg, message) ==
    [ event |-> "GroupMessageEvent", message |-> message,
      user_id |-> msg.wxid, group_id |-> msg.sender ]
PrivateMessageEvent(msg, message) ==
    [ event |-> "PrivateMessageEvent", message |-> message, user_id |-> msg.wxid ]
GetGroupAnnouncementNotice(msg, text) ==
    [ event |-> "GetGroupAnnouncementNotice", text |-> text,
      user_id |-> msg.wxid, group_id |-> msg.sender ]

GetGroupRedBagNotice(msg) ==
    [ event |-> "GetGroupRedBagNotice", user_id |-> msg.wxid, group_id |-> msg.sender ]
GetPrivateRedBagNotice(msg) ==
    [ event |-> "GetPrivateRedBagNotice", user_id |-> msg.wxid ]
GetGroupPokeNotice(msg) ==
    [ event |-> "GetGroupPokeNotice", user_id |-> msg.wxid, group_id |-> msg.sender ]
GetPrivatePokeNotice(msg) ==
    [ event |-> "GetPrivatePokeNotice", user_id |-> msg.wxid ]
GroupMessageDeleteEvent(msg, message_id) ==
    [ event |-> "GroupMessageDeleteEvent", message_id |-> message_id,
      user_id |-> msg.wxid, group_id |-> msg.sender ]
PrivateMessageDeleteEvent(msg, message_id) ==
    [ event |-> "PrivateMessageDeleteEvent", message_id |-> message_id ]

\* The tail every message handler ends with: the group event when the
\* sender holds "@chatroom", the private one otherwise.
MessageEvent(msg, message) ==
    IF Contains(msg.sender, "@chatroom") THEN GroupMessageEvent(msg, message)
    ELSE PrivateMessageEvent(msg, message)

\* What a call did: returned a value or raised. new_msg is the message
\* handle_text had built when it left its loop.
Return(v) == [ kind |-> "return", exc |-> "none", value |-> v, new_msg |-> <<>> ]
Raise(e) == [ kind |-> "raise", exc |-> e, value |-> PyNone, new_msg |-> <<>> ]

\* ----------------------------------------------------------- handle_text

NotifyAll == << "notify@all" >>

\* The loop of handle_text over the enumerated msg_list, from index on.
RECURSIVE MentionLoop(_, _, _, _)
MentionLoop(msg_list, index, at_list, new_msg) ==
    IF index > Len(msg_list) THEN new_msg
    ELSE IF ~re_search(msg_list[index])
         THEN MentionLoop(msg_list, index + 1, at_list,
                          Append(new_msg, Text(msg_list[index])))
         ELSE IF at_list = <<>>
              THEN \* IndexError: no at target is left
                   Append(new_msg, Text(Join(SubSeq(msg_list, index, Len(msg_list)))))
              ELSE MentionLoop(msg_list, index + 1, Tail(at_list),
                               Append(new_msg,
                                      IF Head(at_list) = NotifyAll THEN MentionAll
                                      ELSE Mention(Head(at_list))))

\* at_list after the leading empty field of the PC client is popped
AtList(at_xml) ==
    LET at_list == SplitComma(at_xml.text.str)
    IN IF at_list[1] = <<>> THEN Tail(at_list) ELSE at_list

\* MessageHandler.handle_text(self, msg). With an atuserlist the return
\* statement reads the local name message, which only the other branch
\* binds: UnboundLocalError.
handle_text(msg) ==
    IF ~msg.extrainfo.wellformed THEN Raise("ParseError")
    ELSE LET at_xml == find(msg.extrainfo.root, "atuserlist")
         IN IF IsNone(at_xml)
            THEN LET message == << Text(msg.message) >>
                 IN IF Contains(msg.sender, "@chatroom")
                    THEN Return(GroupMessageEvent(msg, message))
                    ELSE Return(PrivateMessageEvent(msg, message))
            ELSE IF IsNone(at_xml.text) THEN Raise("AttributeError")
            ELSE [ Raise("UnboundLocalError") EXCEPT
                     !.new_msg = MentionLoop(re_split(msg.message), 1, AtList(at_xml), <<>>) ]

\* --------------------------------------------------------- media handlers

\* MessageHandler._find_file(file_path): the function takes file_path
\* alone. The first of the jpg, png and gif files of that name there is.
FindFileParameters == << "file_path" >>
FindFile(file_path) ==
    LET with(suffix) == Path(file_path.dir, << Stem(file_path), suffix >>)
    IN IF with("jpg") \in ImageFiles THEN with("jpg")
       ELSE IF with("png") \in ImageFiles THEN with("png")
       ELSE IF with("gif") \in ImageFiles THEN with("gif")
       ELSE PyNone

\* MessageHandler.handle_image(self, msg): self._find_file(file_path)
\* passes self and file_path.
handle_image(msg) ==
    LET file_path == Path(image_path, << Stem(msg.filepath), "" >>)
    IN IF Len(FindFileParameters) # 2 THEN Raise("TypeError")
       ELSE LET file == FindFile(file_path)
            IN IF IsNone(file) THEN Return(PyNone)
               ELSE Return(MessageEvent(msg,
                        << Image(cache_file_id_from_path(file, file.name)) >>))

\* MessageHandler.handle_voice(self, msg)
handle_voice(msg) ==
    LET file == Path(voice_path, << msg.sign, "amr" >>)
    IN Return(MessageEvent(msg, << Image(cache_file_id_from_path(file, file.name)) >>))

\* MessageHandler.handle_video(self, msg)
handle_video(msg) ==
    LET video_img == Under(wechat_path, msg.thumb_path)
        video_name == << Stem(video_img), "mp4" >>
        video == Path(video_img.dir, video_name)
    IN Return(MessageEvent(msg, << Video(cache_file_id_from_path(video, video_name)) >>))

\* MessageHandler.handle_emoji(self, msg): unquote of None raises.
handle_emoji(msg) ==
    IF ~msg.message.wellformed THEN Raise("ParseError")
    ELSE LET emoji == find(msg.message.root, "emoji")
         IN IF IsNone(emoji) THEN Raise("AttributeError")
            ELSE IF IsNone(AttribGet(emoji, "cdnurl")) THEN Raise("TypeError")
            ELSE Return(MessageEvent(msg,
                     << Image(cache_file_id_from_url(AttribGet(emoji, "cdnurl").str,
                                                     << msg.msgid, "gif" >>)) >>))

\* The attributes of the root element a handler subscripts.
FriendRequestKeys ==
    { "fromusername", "encryptusername", "ticket", "fromnickname", "content",
      "country", "province", "city" }
CardKeys == { "username", "antispamticket", "bigheadimgurl", "province", "city", "sex" }
LocationKeys == { "x", "y", "label", "poiname" }

\* attrib restricted to the keys a handler reads
Read(element, keys) == { pr \in element.attrib : pr[1] \in keys }

\* MessageHandler.handle_friend_request(self, msg)
handle_friend_request(msg) ==
    IF ~msg.message.wellformed THEN Raise("ParseError")
    ELSE IF \E key \in FriendRequestKeys : ~HasAttrib(msg.message.root, key)
    THEN Raise("KeyError")
    ELSE Return(FriendRequestEvent(msg, Read(msg.message.root, FriendRequestKeys)))

\* MessageHandler.handle_card(self, msg)
handle_card(msg) ==
    IF ~msg.message.wellformed THEN Raise("ParseError")
    ELSE IF \E key \in CardKeys : ~HasAttrib(msg.message.root, key)
    THEN Raise("KeyError")
    ELSE Return(MessageEvent(msg, << Card(Read(msg.message.root, CardKeys)) >>))

\* MessageHandler.handle_location(self, msg)
handle_location(msg) ==
    IF ~msg.message.wellformed THEN Raise("ParseError")
    ELSE IF \E key \in LocationKeys : ~HasAttrib(msg.message.root, key)
    THEN Raise("KeyError")
    ELSE Return(MessageEvent(msg, << Location(Read(msg.message.root, LocationKeys)) >>))

\* ------------------------------------------------------------ registries

\* HANDLE_DICT, as the add_handler decorators fill it while the class body
\* of MessageHandler runs: each raw type maps to the plain function.
HANDLE_DICT ==
    [ TEXT_MSG |-> "handle_text", IMAGE_MSG |-> "handle_image",
      VOICE_MSG |-> "handle_voice", FRIEND_REQUEST |-> "handle_friend_request",
      CARD_MSG |-> "handle_card", VIDEO_MSG |-> "handle_video",
      EMOJI_MSG |-> "handle_emoji", LOCATION_MSG |-> "handle_location",
      APP_MSG |-> "handle_app", SYSTEM_MSG |-> "handle_sys",
      GROUP_SYS_MSG |-> "handle_group_sys" ]

\* APP_HANDLERS, as the add_app_handler decorators fill it: the decorator
\* is applied below classmethod, so it stores the plain function too.
APP_HANDLERS ==
    [ LINK_MSG |-> "handle_link", FILE_NOTICE |-> "handle_file",
      QUOTE |-> "handle_quote", APP |-> "AppMessageHandler.handle_app",
      GROUP_ANNOUNCEMENT |-> "handle_announcement", TRANSFER |-> "handle_transfer" ]

\* SYS_HANDLERS and GROUP_SYS_HANDLERS, as add_sys_handler and
\* add_group_sys_handler append to them, below classmethod again.
SYS_HANDLERS == << "read_bag", "poke" >>
GROUP_SYS_HANDLERS == << "event" >>

\* The parameters each registered function declares.
Parameters(func) ==
    IF func \in { HANDLE_DICT[t] : t \in DOMAIN HANDLE_DICT }
    THEN << "self", "msg" >>
    ELSE IF func \in { "read_bag", "poke", "event" }
    THEN << "cls", "msg" >>
    ELSE << "cls", "msg_handler", "msg", "app" >>

\* Raw types no handler is registered for.
UnregisteredTypes == { "TYPE_0", "TYPE_9999" }

\* dict.get(key): the entry, the name None when there is none.
GetFallback(dict, key) == IF key \in DOMAIN dict THEN dict[key] ELSE "handle_text"
Get(dict, key) == IF key \in DOMAIN dict THEN dict[key] ELSE "None"

\* ------------------------------------------------------------ handle_app

\* The decimal numerals an appmsg type element may hold: one per AppType
\* member that has a handler, and one of a value that has none.
Numerals == DOMAIN APP_HANDLERS \cup { "APPTYPE_OTHER" }
IsNumeral(string) == Len(string) = 1 /\ string[1] \in Numerals
\* int(string), named by the AppType member of that value
int(string) == string[1]

\* AppMessageHandler.handle_announcement(msg_handler, msg, app)
handle_announcement(msg, app) ==
    LET element == find(app, "textannouncement")
    IN IF IsNone(element) THEN Raise("AttributeError")
       ELSE Return(GetGroupAnnouncementNotice(msg, element.text))

\* AppMessageHandler.handle_transfer(msg_handler, msg, app)
handle_transfer(msg, app) == Return(PyNone)

\* Element.find of a path of two steps, "./a/b"
find2(element, a, b) ==
    IF IsNone(find(element, a)) THEN PyNone ELSE find(find(element, a), b)

\* str.replace(" ", "")
RemoveSpaces(string) == SelectSeq(string, LAMBDA ch : ch # " ")

\* int(string) succeeds: the string is a run of decimal digits
Digits == { "0", "1", "2", "3", "4", "5", "6", "7", "8", "9" }
IsDecimal(string) == string # <<>> /\ \A i \in 1..Len(string) : string[i] \in Digits

\* AppMessageHandler.handle_link(msg_handler, msg, app)
handle_link(msg, app) ==
    LET title == find(app, "title")
        des == find(app, "des")
        url == find(app, "url")
        image == IF msg.filepath # NoFilePath THEN Under(wechat_path, msg.filepath)
                 ELSE msg.filepath
    IN IF IsNone(title) \/ IsNone(des) \/ IsNone(url) THEN Raise("AttributeError")
       ELSE IF IsNone(url.text) THEN Raise("AttributeError")
       ELSE Return(MessageEvent(msg, << Link(title.text, des.text,
                                            PyStr(RemoveSpaces(url.text.str)),
                                            image) >>))

\* AppMessageHandler.handle_file(msg_handler, msg, app)
handle_file(msg, app) ==
    LET title == find(app, "title")
        md5 == find(app, "md5")
        appattach == find(app, "appattach")
    IN IF IsNone(title) \/ IsNone(md5) \/ IsNone(appattach) THEN Raise("AttributeError")
       ELSE LET totalen == find(appattach, "totalen")
            IN IF IsNone(totalen) THEN Raise("AttributeError")
               ELSE IF IsNone(totalen.text) THEN Raise("TypeError")
               ELSE IF ~IsDecimal(totalen.text.str) THEN Raise("ValueError")
               ELSE IF IsNone(find(appattach, "overwrite_newmsgid"))
               THEN (IF Contains(msg.sender, "@chatroom")
                     THEN Return(GetGroupFileNotice(msg, title.text, md5.text))
                     ELSE Return(GetPrivateFileNotice(msg, title.text, md5.text)))
               ELSE LET file_path == Under(wechat_path, msg.filepath)
                    IN Return(MessageEvent(msg,
                           << File(cache_file_id_from_path(file_path, title.text)) >>))

\* AppMessageHandler.handle_quote(msg_handler, msg, app): the text
\* segment holds the text of the title element as it is.
handle_quote(msg, app) ==
    LET title == find(app, "title")
        svrid == find2(app, "refermsg", "svrid")
        fromusr == find2(app, "refermsg", "fromusr")
    IN IF IsNone(title) \/ IsNone(svrid) \/ IsNone(fromusr) THEN Raise("AttributeError")
       ELSE Return(MessageEvent(msg, << Reply(svrid.text, fromusr.text), Text(title.text) >>))

\* AppMessageHandler.handle_app(msg_handler, msg, app)
AppMessageHandler_handle_app(msg, app) ==
    LET title == find(app, "title")
        url == find(app, "url")
        username == find2(app, "weappinfo", "username")
    IN IF IsNone(title) \/ IsNone(url) \/ IsNone(username) THEN Raise("AttributeError")
       ELSE Return(MessageEvent(msg, << App(username.text, title.text, url.text) >>))

\* handler(self, msg, app), had the three arguments fitted the parameters
AppHandlerBody(handler, msg, app) ==
    CASE handler = "handle_announcement" -> handle_announcement(msg, app)
      [] handler = "handle_transfer" -> handle_transfer(msg, app)
      [] handler = "handle_link" -> handle_link(msg, app)
      [] handler = "handle_file" -> handle_file(msg, app)
      [] handler = "handle_quote" -> handle_quote(msg, app)
      [] handler = "AppMessageHandler.handle_app" -> AppMessageHandler_handle_app(msg, app)

\* MessageHandler.handle_app(self, msg)
handle_app(msg) ==
    IF ~msg.message.wellformed THEN Raise("ParseError")
    ELSE LET app == find(msg.message.root, "appmsg")
         IN IF IsNone(app) THEN Raise("AttributeError")
            ELSE LET type == find(app, "type")
                 IN IF IsNone(type) THEN Raise("AttributeError")
                    ELSE IF IsNone(type.text) THEN Raise("TypeError")
                    ELSE IF ~IsNumeral(type.text.str) THEN Raise("ValueError")
                    ELSE LET handler == Get(APP_HANDLERS, int(type.text.str))
                         IN IF handler = "None" THEN Return(PyNone)
                            ELSE IF Len(Parameters(handler)) # 3 THEN Raise("TypeError")
                            ELSE AppHandlerBody(handler, msg, app)

\* ------------------------------------------------------------ handle_sys

\* The literal bodies the system handlers look for: the red packet notice
\* (the whole body) and the poke mark (a part of the body).
RedBagBody == << "RED_BAG_RECEIVED" >>
PokeMark == "POKED_ME"

\* SysMessageHandler.read_bag(cls, msg)
read_bag(msg) ==
    IF msg.message # RedBagBody THEN Return(PyNone)
    ELSE IF Contains(msg.sender, "@chatroom") THEN Return(GetGroupRedBagNotice(msg))
    ELSE Return(GetPrivateRedBagNotice(msg))

\* SysMessageHandler.poke(cls, msg)
poke(msg) ==
    IF ~Contains(msg.message, PokeMark) THEN Return(PyNone)
    ELSE IF Contains(msg.sender, "@chatroom") THEN Return(GetGroupPokeNotice(msg))
    ELSE Return(GetPrivatePokeNotice(msg))

\* handler(msg), had the one argument fitted the parameters
SysHandlerBody(handler, msg) ==
    CASE handler = "read_bag" -> read_bag(msg)
      [] handler = "poke" -> poke(msg)

\* The loop of handle_sys over the handlers left: result = handler(msg),
\* left at the first result that is not None.
RECURSIVE SysLoop(_, _)
SysLoop(handlers, msg) ==
    IF handlers = <<>> THEN Return(PyNone)
    ELSE IF Len(Parameters(Head(handlers))) # 1 THEN Raise("TypeError")
    ELSE LET result == SysHandlerBody(Head(handlers), msg)
         IN IF result.kind = "raise" \/ ~IsNone(result.value) THEN result
            ELSE SysLoop(Tail(handlers), msg)

\* MessageHandler.handle_sys(self, msg)
handle_sys(msg) == SysLoop(SYS_HANDLERS, msg)

\* ------------------------------------------------------ handle_group_sys

\* getattr(obj, "message"): a raw message has the attribute, an Element
\* has not.
HasMessage(obj) == "message" \in DOMAIN obj

\* GroupSysMsgHandler.event(cls, msg), with the two arguments it is given
GroupSysMsgHandler_event(cls, msg) ==
    IF ~HasMessage(msg) THEN Raise("AttributeError")
    ELSE Return(PyNone)

\* The loop of handle_group_sys: result = handler(msg, xml_obj)
RECURSIVE GroupSysLoop(_, _, _)
GroupSysLoop(handlers, msg, xml_obj) ==
    IF handlers = <<>> THEN Return(PyNone)
    ELSE IF Len(Parameters(Head(handlers))) # 2 THEN Raise("TypeError")
    ELSE LET result == GroupSysMsgHandler_event(msg, xml_obj)
         IN IF result.kind = "raise" \/ ~IsNone(result.value) THEN result
            ELSE GroupSysLoop(Tail(handlers), msg, xml_obj)

\* The statements of handle_group_sys below its return statement, were
\* they the body of the function.
RecallBranch(msg) ==
    IF ~msg.message.wellformed THEN Raise("ParseError")
    ELSE LET revokemsg == find(msg.message.root, "revokemsg")
             msg_obj == IF IsNone(revokemsg) THEN PyNone ELSE find(revokemsg, "newmsgid")
         IN IF IsNone(msg_obj) THEN Return(PyNone)
            ELSE IF Contains(msg.sender, "@chatroom")
            THEN Return(GroupMessageDeleteEvent(msg, msg_obj.text))
            ELSE Return(PrivateMessageDeleteEvent(msg, msg_obj.text))

\* MessageHandler.handle_group_sys(self, msg): parse, loop, return result.
handle_group_sys(msg) ==
    IF ~msg.message.wellformed THEN Raise("ParseError")
    ELSE GroupSysLoop(GROUP_SYS_HANDLERS, msg, msg.message.root)

\* -------------------------------------------------------- handle_message

\* handler(msg), had the one argument fitted the parameters
HandlerBody(handler, msg) ==
    CASE handler = "handle_text" -> handle_text(msg)
      [] handler = "handle_app" -> handle_app(msg)
      [] handler = "handle_sys" -> handle_sys(msg)
      [] handler = "handle_image" -> handle_image(msg)
      [] handler = "handle_voice" -> handle_voice(msg)
      [] handler = "handle_video" -> handle_video(msg)
      [] handler = "handle_emoji" -> handle_emoji(msg)
      [] handler = "handle_friend_request" -> handle_friend_request(msg)
      [] handler = "handle_card" -> handle_card(msg)
      [] handler = "handle_location" -> handle_location(msg)
      [] handler = "handle_group_sys" -> handle_group_sys(msg)

\* MessageHandler.handle_message(self, msg): the registered function is
\* called with msg alone, awaited or not.
handle_message(msg) ==
    LET handler == Get(HANDLE_DICT, msg.type)
    IN IF handler = "None" THEN Return(PyNone)
       ELSE IF Len(Parameters(handler)) # 1 THEN Raise("TypeError")
       ELSE HandlerBody(handler, msg)

\* ----------------------------------------------------- the raw messages

Senders == { << "123", "@chatroom" >>, << "wxid_bob" >> }

AtTexts ==
    { PyNone, PyStr(<< "wx_alice" >>), PyStr(<< ",", "wx_alice" >>),
      PyStr(<< "wx_alice", ",", "wx_bob" >>), PyStr(NotifyAll) }

ExtraInfos ==
    { MalformedXml,
      Xml(Element("msgsource", PyNone, <<>>)),
      Xml(Element("atuserlist", PyStr(<< "wx_alice" >>), <<>>)) }
    \cup { Xml(Element("msgsource", PyNone, << Element("atuserlist", t, <<>>) >>)) :
             t \in AtTexts }

RawMessage(type, sender, message, extrainfo) ==
    [ type |-> type, sender |-> sender, wxid |-> << "wxid_bob" >>,
      message |-> message, extrainfo |-> extrainfo,
      filepath |-> NoFilePath, thumb_path |-> NoFilePath, sign |-> "", msgid |-> "5" ]

TextMessages ==
    { RawMessage("TEXT_MSG", s, t, x) : s \in Senders, t \in Texts, x \in ExtraInfos }

TypeTexts == { PyNone, PyStr(<< "abc" >>) } \cup { PyStr(<< n >>) : n \in Numerals }

AppElements ==
    { Element("appmsg", PyNone, <<>>) }
    \cup { Element("appmsg", PyNone, << Element("type", t, <<>>) >>) : t \in TypeTexts }
    \cup { Element("appmsg", PyNone,
                   << Element("type", PyStr(<< "GROUP_ANNOUNCEMENT" >>), <<>>),
                      Element("textannouncement", PyStr(<< "notice" >>), <<>>) >>) }

\* appmsg elements of a link, a file (announced, downloaded, of a length
\* that is no number), a quote and an app share.
Leaf(tag, string) == Element(tag, PyStr(string), <<>>)
SubtypeElements ==
    { Element("appmsg", PyNone,
              << Leaf("type", << "LINK_MSG" >>), Leaf("title", << "t" >>),
                 Leaf("des", << "d" >>), Leaf("url", << "http:", " ", "x" >>) >>),
      Element("appmsg", PyNone,
              << Leaf("type", << "LINK_MSG" >>), Leaf("title", << "t" >>),
                 Leaf("des", << "d" >>) >>),
      Element("appmsg", PyNone,
              << Leaf("type", << "FILE_NOTICE" >>), Leaf("title", << "a.pdf" >>),
                 Leaf("md5", << "m" >>),
                 Element("appattach", PyNone, << Leaf("totalen", << "1", "0" >>) >>) >>),
      Element("appmsg", PyNone,
              << Leaf("type", << "FILE_NOTICE" >>), Leaf("title", << "a.pdf" >>),
                 Leaf("md5", << "m" >>),
                 Element("appattach", PyNone,
                         << Leaf("totalen", << "1", "0" >>),
                            Leaf("overwrite_newmsgid", << "9" >>) >>) >>),
      Element("appmsg", PyNone,
              << Leaf("type", << "FILE_NOTICE" >>), Leaf("title", << "a.pdf" >>),
                 Leaf("md5", << "m" >>),
                 Element("appattach", PyNone, << Leaf("totalen", << "1", "k" >>) >>) >>),
      Element("appmsg", PyNone,
              << Leaf("type", << "QUOTE" >>), Leaf("title", << "re" >>),
                 Element("refermsg", PyNone,
                         << Leaf("svrid", << "7" >>), Leaf("fromusr", << "wx_alice" >>) >>) >>),
      Element("appmsg", PyNone,
              << Leaf("type", << "APP" >>), Leaf("title", << "t" >>), Leaf("url", << "u" >>),
                 Element("weappinfo", PyNone, << Leaf("username", << "gh_1" >>) >>) >>) }

AppDocuments ==
    { MalformedXml, Xml(Element("msg", PyNone, <<>>)) }
    \cup { Xml(Element("msg", PyNone, << a >>)) : a \in AppElements \cup SubtypeElements }

\* The paths msg.filepath and msg.thumb_path hold, relative to wechat_path.
FilePaths ==
    { Path(<< "wxid_me", "FileStorage" >>, << "pic", "dat" >>),
      Path(<< "wxid_me", "FileStorage" >>, << "other", "dat" >>) }

WithFile(msg, path, sign) ==
    [ msg EXCEPT !.filepath = path, !.thumb_path = path, !.sign = sign ]

AppMessages ==
    { WithFile(RawMessage("APP_MSG", s, d, Xml(Element("msgsource", PyNone, <<>>))), f, "") :
        s \in Senders, d \in AppDocuments, f \in FilePaths \cup { NoFilePath } }

\* Image, voice and video messages: the payload is the file.
FileMessages ==
    { WithFile(RawMessage(t, s, <<>>, Xml(Element("msgsource", PyNone, <<>>))), f, "sign1") :
        t \in { "IMAGE_MSG", "VOICE_MSG", "VIDEO_MSG" }, s \in Senders, f \in FilePaths }

\* Emoji, card, location and friend request messages: the payload is a
\* document, with all, some or none of what the handler reads.
Attributes(keys) == { << key, "v" >> : key \in keys }
AttribDocuments ==
    { MalformedXml,
      Xml(Element("msg", PyNone, <<>>)),
      Xml(Element("msg", PyNone, << Element("emoji", PyNone, <<>>) >>)),
      Xml(Element("msg", PyNone,
                  << WithAttrib(Element("emoji", PyNone, <<>>),
                                Attributes({ "cdnurl" })) >>)),
      Xml(WithAttrib(Element("msg", PyNone, <<>>), Attributes({ "province", "city" }))) }
    \cup { Xml(WithAttrib(Element("msg", PyNone, <<>>), Attributes(keys))) :
             keys \in { FriendRequestKeys, CardKeys, LocationKeys } }

AttribMessages ==
    { RawMessage(t, s, d, Xml(Element("msgsource", PyNone, <<>>))) :
        t \in { "EMOJI_MSG", "CARD_MSG", "LOCATION_MSG", "FRIEND_REQUEST" },
        s \in Senders, d \in AttribDocuments }

SysBodies ==
    { RedBagBody, << "alice", PokeMark >>, << PokeMark >>, << "RED_BAG_RECEIVED", "a" >>,
      << "a" >>, <<>> }

SysMessages ==
    { RawMessage("SYSTEM_MSG", s, b, Xml(Element("msgsource", PyNone, <<>>))) :
        s \in Senders, b \in SysBodies }

GroupSysDocuments ==
    { MalformedXml,
      Xml(Element("sysmsg", PyNone, <<>>)),
      Xml(Element("sysmsg", PyNone, << Element("revokemsg", PyNone, <<>>) >>)),
      Xml(Element("sysmsg", PyNone,
                  << Element("revokemsg", PyNone,
                             << Element("newmsgid", PyStr(<< "77" >>), <<>>) >>) >>)) }

GroupSysMessages ==
    { RawMessage("GROUP_SYS_MSG", s, d, Xml(Element("msgsource", PyNone, <<>>))) :
        s \in Senders, d \in GroupSysDocuments }

OtherMessages ==
    { RawMessage(t, s, <<>>, Xml(Element("msgsource", PyNone, <<>>))) :
        s \in Senders,
        t \in UnregisteredTypes }

\* ---------------------------------------------------------------- state

\* No raw message has arrived.
NotHandled ==
    [ op |-> "none", msg |-> RawMessage("", <<>>, <<>>, MalformedXml),
      result |-> Return(PyNone) ]

NormalizeIdle == handled = NotHandled

Handled(op, msg, result) == [ op |-> op, msg |-> msg, result |-> result ]

\* One raw message has arrived and no operation has been applied to it.
\* The handler keeps no state between two messages, so one message from
\* the constructed state shows all that an operation does.
Arrived(msg) == handled = Handled("none", msg, Return(PyNone))

NormalizeInit ==
    \/ \E msg \in TextMessages : Arrived(msg)
    \/ \E msg \in AppMessages : Arrived(msg)
    \/ \E msg \in SysMessages : Arrived(msg)
    \/ \E msg \in GroupSysMessages : Arrived(msg)
    \/ \E msg \in FileMessages : Arrived(msg)
    \/ \E msg \in AttribMessages : Arrived(msg)
    \/ \E msg \in OtherMessages : Arrived(msg)

\* await self.handle_message(msg)
HandleMessage ==
    /\ handled.op = "none"
    /\ handled' = Handled("handle_message", handled.msg, handle_message(handled.msg))
    /\ UNCHANGED << dvars, gvars >>

\* self.handle_text(msg), the method called on the instance
HandleText ==
    /\ handled.op = "none"
    /\ handled.msg.type = "TEXT_MSG"
    /\ handled' = Handled("handle_text", handled.msg, handle_text(handled.msg))
    /\ UNCHANGED << dvars, gvars >>

\* await self.handle_app(msg), the method called on the instance
HandleApp ==
    /\ handled.op = "none"
    /\ handled.msg.type = "APP_MSG"
    /\ handled' = Handled("handle_app", handled.msg, handle_app(handled.msg))
    /\ UNCHANGED << dvars, gvars >>

\* AppMessageHandler.handle_announcement(self, msg, app), the classmethod
\* called on its class with the appmsg element of the message
HandleAnnouncement ==
    /\ handled.op = "none"
    /\ handled.msg.type = "APP_MSG"
    /\ handled.msg.message.wellformed
    /\ ~IsNone(find(handled.msg.message.root, "appmsg"))
    /\ handled' = Handled("handle_announcement", handled.msg,
                          handle_announcement(handled.msg,
                                              find(handled.msg.message.root, "appmsg")))
    /\ UNCHANGED << dvars, gvars >>

\* self.handle_sys(msg), the method called on the instance
HandleSys ==
    /\ handled.op = "none"
    /\ handled.msg.type = "SYSTEM_MSG"
    /\ handled' = Handled("handle_sys", handled.msg, handle_sys(handled.msg))
    /\ UNCHANGED << dvars, gvars >>

\* SysMessageHandler.read_bag(msg) or SysMessageHandler.poke(msg), the
\* classmethod called on its class
SysHandler ==
    /\ handled.op = "none"
    /\ handled.msg.type = "SYSTEM_MSG"
    /\ \E handler \in { "read_bag", "poke" } :
           handled' = Handled(handler, handled.msg, SysHandlerBody(handler, handled.msg))
    /\ UNCHANGED << dvars, gvars >>

\* self.handle_group_sys(msg), the method called on the instance
HandleGroupSys ==
    /\ handled.op = "none"
    /\ handled.msg.type = "GROUP_SYS_MSG"
    /\ handled' = Handled("handle_group_sys", handled.msg, handle_group_sys(handled.msg))
    /\ UNCHANGED << dvars, gvars >>

\* self.handle_image(msg) and the other methods whose payload is a file
\* or a document of attributes, called on the instance
HandleMethod ==
    /\ handled.op = "none"
    /\ handled.msg.type \in { "IMAGE_MSG", "VOICE_MSG", "VIDEO_MSG", "EMOJI_MSG",
                               "CARD_MSG", "LOCATION_MSG", "FRIEND_REQUEST" }
    /\ handled' = Handled(HANDLE_DICT[handled.msg.type], handled.msg,
                          HandlerBody(HANDLE_DICT[handled.msg.type], handled.msg))
    /\ UNCHANGED << dvars, gvars >>

\* The appmsg element of the message and the handler of its sub-type
AppOf(msg) == find(msg.message.root, "appmsg")
HasSubtype(msg) ==
    /\ msg.type = "APP_MSG"
    /\ msg.message.wellformed
    /\ ~IsNone(AppOf(msg))
    /\ ~IsNone(find(AppOf(msg), "type"))
    /\ ~IsNone(find(AppOf(msg), "type").text)
    /\ IsNumeral(find(AppOf(msg), "type").text.str)
SubtypeHandler(msg) == Get(APP_HANDLERS, int(find(AppOf(msg), "type").text.str))

\* AppMessageHandler.handle_link(self, msg, app) and the other
\* classmethods, called on their class with the appmsg element
AppHandler ==
    /\ handled.op = "none"
    /\ HasSubtype(handled.msg)
    /\ SubtypeHandler(handled.msg) \in
           { APP_HANDLERS[t] : t \in DOMAIN APP_HANDLERS } \ { "handle_announcement" }
    /\ handled' = Handled(SubtypeHandler(handled.msg), handled.msg,
                          AppHandlerBody(SubtypeHandler(handled.msg), handled.msg,
                                         AppOf(handled.msg)))
    /\ UNCHANGED << dvars, gvars >>

NormalizeNext ==
    \/ HandleMethod
    \/ AppHandler
    \/ HandleMessage
    \/ HandleText
    \/ HandleApp
    \/ HandleAnnouncement
    \/ HandleSys
    \/ SysHandler
    \/ HandleGroupSys

\* ========================================================= json_to_event
\* wechat/wechat.py: WeChatManager.json_to_event and get_event_model, on
\* the value a frame decoded to.

\* The most candidate models one entry of event_models yields.
MaxModels == 2

\* The keys of a decoded mapping, each the sequence of its dotted parts.
FlatKeys == { << "type" >>, << "id" >>, << "self", "user_id" >> }
JsonDicts == { PyDict({ << k, "v" >> : k \in K }) : K \in SUBSET FlatKeys }

\* The values a frame decodes to: mappings, a number, a list.
JsonValues == JsonDicts \cup { PyInt(1), PyList(<<>>) }

\* flattened_to_nested: a dotted key becomes a mapping under its first part.
flattened_to_nested(data) ==
    LET heads == { pr[1][1] : pr \in data.dict }
        leaf(h) == \E pr \in data.dict : pr[1] = << h >>
        under(h) == { pr \in data.dict : pr[1][1] = h /\ Len(pr[1]) = 2 }
    IN PyDict({ << h, IF leaf(h) THEN PyStr((CHOOSE pr \in data.dict : pr[1] = << h >>)[2])
                      ELSE PyDict({ << pr[1][2], pr[2] >> : pr \in under(h) }) >> :
                h \in heads })

\* An event model, by the top-level fields it requires; and the generic one.
EventModels ==
    { [ name |-> "A", required |-> { "type", "self" } ],
      [ name |-> "B", required |-> { "type" } ],
      [ name |-> "C", required |-> { "group_id" } ] }
GenericEvent == [ name |-> "Event", required |-> { "id", "type" } ]

\* model.parse_obj(json_data) succeeds
parse_obj(model, data) == model.required \subseteq { pr[1] : pr \in data.dict }
ParsedEvent(model) == [ event |-> model.name ]

\* The lists of candidate models an entry of event_models yields.
ModelLists ==
    UNION { { q \in [ 1..n -> EventModels ] : \A i, j \in 1..n : q[i] = q[j] => i = j } :
            n \in 0..MaxModels }

\* cls.event_models: not assigned (the class only annotates it), or a
\* mapping that may hold an entry for the key of the data and may hold the
\* entry "".
EventModelMaps ==
    { PyNone } \cup
    { [ keyed |-> k, default |-> d ] :
        k \in { PyNone } \cup { PyList(q) : q \in ModelLists },
        d \in { PyNone } \cup { PyList(q) : q \in ModelLists } }

\* get_event_model, a generator: the models it yields, in order, and the
\* exception that ends it, if any.
get_event_model(event_models) ==
    IF IsNone(event_models) THEN [ yielded |-> <<>>, exc |-> "AttributeError" ]
    ELSE LET first == IF IsNone(event_models.keyed) THEN <<>> ELSE event_models.keyed.list
         IN IF IsNone(event_models.default)
            THEN [ yielded |-> first, exc |-> "KeyError" ]
            ELSE [ yielded |-> first \o event_models.default.list, exc |-> "none" ]

\* The model the for loop breaks on, among those that parse.
LastParsing(hits) == CHOOSE i \in hits : \A j \in hits : j <= i
FirstParsing(hits) == CHOOSE i \in hits : \A j \in hits : i <= j

\* json_to_event(json_data), with cls.event_models as given.
JsonToEvent(json_data, event_models) ==
    IF ~IsDict(json_data) THEN Return(PyNone)
    ELSE LET data == flattened_to_nested(json_data)
             models == get_event_model(event_models)
             hits == { i \in 1..Len(models.yielded) : parse_obj(models.yielded[i], data) }
         IN IF hits # {} THEN Return(ParsedEvent(models.yielded[FirstParsing(hits)]))
            ELSE IF models.exc # "none" THEN Return(PyNone)
            ELSE IF parse_obj(GenericEvent, data) THEN Return(ParsedEvent(GenericEvent))
            ELSE Return(PyNone)

\* A decoded frame at hand, before json_to_event is called on it.
Frame(json_data, event_models) ==
    Step("frame", "", [ json_data |-> json_data, event_models |-> event_models ], "", FALSE)

DecodeInit ==
    \E j \in JsonValues, e \in EventModelMaps :
        GatewayStartWith({ "" }, { <<>> }, Frame(j, e))

\* event = self.json_to_event(...)
DecodeFrame ==
    /\ last.op = "frame"
    /\ last' = Step("json_to_event", "", last.input,
                    JsonToEvent(last.input.json_data, last.input.event_models), FALSE)
    /\ UNCHANGED << access_token, onebot_ws_urls, attrs, ws, fwd, connections, nextSeq,
                    startLog, stopLog, lastFanout, driverLog, dvars, nvars >>

DecodeNext == DecodeFrame

\* ================================================================ specs

\* The dispatcher alone.
InitDispatch == DispatchInit /\ GatewayStart({ "" }, { <<>> }) /\ NormalizeIdle
NextDispatch == DispatchNext /\ UNCHANGED << gvars, nvars >>
SpecDispatch == InitDispatch /\ [][NextDispatch]_vars

\* The server-accepted sessions and the fan-out to them.
InitServer == DispatchInit /\ GatewayStart({ "", "secret" }, { <<>> }) /\ NormalizeIdle
SpecServer == InitServer /\ [][ServerNext(WebSockets)]_vars

\* The forward connections, their start and their stop.
InitForward == DispatchInit /\ GatewayStart({ "secret" }, UrlLists) /\ NormalizeIdle
NextForward == ForwardNext(GoodUrls) \/ LifecycleNext
SpecForward == InitForward /\ [][NextForward]_vars

\* One server-accepted session beside one forward connection.
InitGateway == DispatchInit /\ GatewayStart({ "", "secret" }, { << "ws://a" >> }) /\ NormalizeIdle
NextGateway == ServerNext({ "w1" }) \/ ForwardNext({ "ws://a" })
SpecGateway == InitGateway /\ [][NextGateway]_vars

\* The normalizer alone.
InitNormalize == DispatchInit /\ GatewayStart({ "" }, { <<>> }) /\ NormalizeInit
SpecNormalize == InitNormalize /\ [][NormalizeNext]_vars

InitDecode == DispatchInit /\ DecodeInit /\ NormalizeIdle
SpecDecode == InitDecode /\ [][DecodeNext]_vars

\* --------------------------------------------------- claims on the gateway

Reading(ep) == IF ep \in WebSockets THEN ws[ep].state = "open" ELSE fwd[ep].pc = "reading"
LoopEnded(ep) ==
    IF ep \in WebSockets THEN ws[ep].state = "done" /\ ws[ep].closeCode = NormalClosure
    ELSE fwd[ep].pc \in { "sleep", "done" }

\* C4: with an access token configured, a websocket whose bearer token is
\* absent or different is closed with code 1008 and is never registered:
\* it is in no fan-out, no frame of it is read and no event of it is handled.
C4_RejectBeforeOpen ==
    \A w \in WebSockets :
        (/\ ws[w].state # "new"
         /\ access_token # ""
         /\ get_auth_bearer(ws[w].header) # access_token) =>
            /\ ws[w].state = "rejected"
            /\ ws[w].closeCode = PolicyViolation
            /\ ws[w].seq = 0
            /\ ~Registered(w)
            /\ ws[w].pending = 0
            /\ \A c \in lastFanout.targets : c.ep # w
            /\ ~(last.op \in { "read", "handle_event" } /\ last.ep = w)

\* C4's case: a websocket was rejected, and an event was then fanned out to
\* another that had presented the token.
C4_Witness ==
    /\ access_token = "secret"
    /\ \E w \in WebSockets : ws[w].state = "rejected" /\ ws[w].closeCode = PolicyViolation
    /\ last.op = "fanout"
    /\ lastFanout.delivered # {}

\* C5: a forward connection whose attempt failed sleeps one
\* RECONNECT_INTERVAL, no more and no less, before the next attempt, after
\* every failure, and ends only when it is cancelled.
C5_RetryAfterOneInterval ==
    \A u \in GoodUrls :
        fwd[u].failed =>
            \/ fwd[u].pc = "sleep" /\ fwd[u].waited = 0
            \/ fwd[u].pc = "connect" /\ fwd[u].waited = RECONNECT_INTERVAL
            \/ fwd[u].pc = "done" /\ fwd[u].cancel

\* C5's case: an attempt failed, the task slept, and it is about to connect again.
C5_Witness ==
    \E u \in GoodUrls :
        /\ fwd[u].failed
        /\ fwd[u].pc = "connect"
        /\ fwd[u].waited = RECONNECT_INTERVAL
        /\ last = Step("sleep", u, "", "", FALSE)

\* C6: once _start_forward has run, each well-formed url of the configuration
\* has a retry task of its own, running and recorded in the manager's task list.
C6_EveryTargetHasItsTask ==
    startLog.ran =>
        \A i \in 1..Len(onebot_ws_urls) :
            onebot_ws_urls[i] \notin BadUrls =>
                /\ "tasks" \in DOMAIN attrs
                /\ onebot_ws_urls[i] \in startLog.created
                /\ fwd[onebot_ws_urls[i]].origin = "start_forward"

\* C7: _stop_forward cancels every forward task that is not done, and a
\* cancelled task makes no further attempt.
C7_StopCancelsEveryTask ==
    (last.op = "stop_forward") =>
        /\ stopLog = "cancelled"
        /\ \A u \in GoodUrls : Running(fwd[u]) => fwd[u].cancel

\* C8 as stated: a frame that fails to decode, like one that yields no event,
\* is dropped, and the session stays registered with its read loop going on.
C8_BadFrameKeepsSession ==
    (last.op = "read" /\ last.input \in Garbage \cup NoEvent) =>
        Registered(last.ep) /\ Reading(last.ep)

\* C8, what the code does instead: a frame that fails to decode (invalid JSON
\* or msgpack) ends the session's read loop and the session is deregistered
\* (a server-accepted websocket is closed, a forward connection goes to its
\* reconnect sleep); only a frame that decodes but yields no event is dropped
\* with the session staying registered and its read loop going on.
C8_DecodeFailureEndsSession ==
    (last.op = "read") =>
        /\ last.input \in Garbage => ~Registered(last.ep) /\ LoopEnded(last.ep)
        /\ last.input \in NoEvent => Registered(last.ep) /\ Reading(last.ep)

\* That case: a forward session has just read a frame that is not JSON, after
\* the server-accepted session ended.
C8_SessionEndedByGarbage ==
    /\ last = Step("read", "ws://a", "text:garbage", "error", FALSE)
    /\ fwd["ws://a"].pc = "sleep"
    /\ ~Registered("ws://a")
    /\ ws["w1"].state = "done"

\* C9: on every open session, server-accepted or forward, a frame that is a
\* valid action request is handed to the dispatcher (whose response is then
\* written on that session).
C9_RequestIsHandedToDispatcher ==
    (last.op = "read" /\ last.result = "event") => last.handed

\* C10: in a fan-out to K open sessions, a session whose write fails is
\* closed, it alone, and the others get the frame; only sessions registered
\* (not closed) when the fan-out runs are written to.
C10_FanOutIsolatesFailure ==
    [][ (last'.op = "fanout") =>
          /\ lastFanout'.targets = { c \in connections : c.ep \in WebSockets }
          /\ \A c \in lastFanout'.targets : ws[c.ep].alive /\ ws[c.ep].state = "open"
          /\ lastFanout'.delivered = lastFanout'.targets \ lastFanout'.failed
          /\ connections' = connections \ lastFanout'.failed
          /\ \A w \in WebSockets :
                /\ ws'[w].alive = (ws[w].alive /\ ~(\E c \in lastFanout'.failed : c.ep = w))
                /\ ws'[w].state = ws[w].state
      ]_vars

\* C10's case: a fan-out to two open sessions in which one write failed.
C10_Witness ==
    /\ last.op = "fanout"
    /\ Cardinality(lastFanout.targets) = 2
    /\ Cardinality(lastFanout.failed) = 1
    /\ Cardinality(lastFanout.delivered) = 1

\* C19: a forward session that was established and whose read loop ended on
\* an I/O failure or a remote close is deregistered (ws_disconnect for its
\* seq), and the task sleeps one RECONNECT_INTERVAL and then attempts again,
\* each time; it ends only when it is cancelled.
C19_ReconnectAfterSessionLoss ==
    \A u \in GoodUrls :
        (fwd[u].seq # 0 /\ ~fwd[u].failed) =>
            \/ fwd[u].pc = "reading"
            \/ /\ fwd[u].pc = "sleep"
               /\ fwd[u].waited = 0
               /\ \A c \in connections : c.seq # fwd[u].seq
               /\ fwd[u].seq \in driverLog.disconnected
            \/ /\ fwd[u].pc = "connect"
               /\ fwd[u].waited = RECONNECT_INTERVAL
               /\ \A c \in connections : c.seq # fwd[u].seq
               /\ fwd[u].seq \in driverLog.disconnected
            \/ fwd[u].pc = "done" /\ fwd[u].cancel

\* C19's case: a forward connection lost its session, slept, connected
\* again, lost that second session too, slept again and is about to make
\* its third attempt.
C19_Witness ==
    \E u \in GoodUrls :
        /\ \A v \in GoodUrls \ { u } : fwd[v].pc = "none"
        /\ fwd[u].seq = 2
        /\ ~fwd[u].failed
        /\ driverLog.disconnected = { 1, 2 }
        /\ fwd[u].pc = "connect"
        /\ fwd[u].waited = RECONNECT_INTERVAL
        /\ last = Step("sleep", u, "", "", FALSE)

\* The seq ws_connect gave the session of an endpoint.
SeqOf(ep) == IF ep \in WebSockets THEN ws[ep].seq ELSE fwd[ep].seq

C11_UnregisteredTypeIsNoEvent ==
    (handled.op = "handle_message" /\ handled.msg.type \notin DOMAIN HANDLE_DICT) =>
        handled.result = Return(PyNone)

\* C11's case: handle_message was given a raw message of an unregistered
\* type and returned None.
C11_Witness ==
    /\ handled.op = "handle_message"
    /\ handled.msg.type \in UnregisteredTypes
    /\ handled.result.kind = "return"
    /\ IsNone(handled.result.value)

\* The structured payload of a text or app message is malformed: XML that
\* does not parse, or that lacks an element or a text the handler reads.
MalformedPayload(msg) ==
    \/ /\ msg.type = "TEXT_MSG"
       /\ \/ ~msg.extrainfo.wellformed
          \/ /\ ~IsNone(find(msg.extrainfo.root, "atuserlist"))
             /\ IsNone(find(msg.extrainfo.root, "atuserlist").text)
    \/ /\ msg.type = "APP_MSG"
       /\ \/ ~msg.message.wellformed
          \/ IsNone(find(msg.message.root, "appmsg"))
          \/ IsNone(find(find(msg.message.root, "appmsg"), "type"))

\* C12: a raw message whose structured payload is malformed is normalized
\* to an event or to None; nothing is raised out of handle_message, nor out
\* of the handler of its type.
C12_MalformedPayloadNeverRaises ==
    (handled.op \in { "handle_message", "handle_text", "handle_app" }
        /\ MalformedPayload(handled.msg)) =>
        handled.result.kind = "return"

\* The indices of the raw text at which a mention marker starts.
MarkerStarts(s) == { i \in 1..Len(s) : MatchEnd(s, i) > 0 }

\* The start of the n-th marker of the raw text.
NthMarker(s, n) ==
    CHOOSE i \in MarkerStarts(s) : Cardinality({ j \in MarkerStarts(s) : j <= i }) = n

\* handle_text was given a text message whose atuserlist names fewer
\* identifiers than the text has markers.
FewerIdentifiers ==
    /\ handled.op = "handle_text"
    /\ handled.msg.extrainfo.wellformed
    /\ ~IsNone(find(handled.msg.extrainfo.root, "atuserlist"))
    /\ ~IsNone(find(handled.msg.extrainfo.root, "atuserlist").text)
    /\ Len(AtList(find(handled.msg.extrainfo.root, "atuserlist")))
           < Cardinality(MarkerStarts(handled.msg.message))

\* The message keeps the first M markers as mentions and the text from the
\* (M+1)-th marker on as its last segment, a plain text.
KeepsRemainder(message, text, M) ==
    /\ Cardinality({ i \in 1..Len(message) :
                        message[i].type \in { "mention", "mention_all" } }) = M
    /\ message # <<>>
    /\ message[Len(message)] = Text(SubSeq(text, NthMarker(text, M + 1), Len(text)))

\* C13: for a text message with N mention markers and M < N mentioned
\* identifiers, handle_text does not fail: it returns an event whose first
\* M markers are mention segments and whose last segment is the raw text
\* from the (M+1)-th marker on, verbatim.
C13_MismatchIsRecovered ==
    FewerIdentifiers =>
        /\ handled.result.kind = "return"
        /\ KeepsRemainder(handled.result.value.message, handled.msg.message,
                          Len(AtList(find(handled.msg.extrainfo.root, "atuserlist"))))

\* What the code does in C13's case: the loop builds that message, and the
\* return statement then raises UnboundLocalError.
C13_LoopRecoversThenRaises ==
    FewerIdentifiers =>
        /\ handled.result.kind = "raise"
        /\ handled.result.exc = "UnboundLocalError"
        /\ KeepsRemainder(handled.result.new_msg, handled.msg.message,
                          Len(AtList(find(handled.msg.extrainfo.root, "atuserlist"))))

\* The raw message of the scenario: a text "@Alice hello" sent to the
\* chatroom 123@chatroom, whose extrainfo is the document of one
\* atuserlist element of text wx_alice.
AliceMessage ==
    RawMessage("TEXT_MSG", << "123", "@chatroom" >>, AliceHello,
               Xml(Element("atuserlist", PyStr(<< "wx_alice" >>), <<>>)))

\* C14: that raw message normalizes to a group message event whose content
\* is exactly two segments, in this order: mention(wx_alice), text(" hello").
C14_AliceHelloIsMentionThenText ==
    (handled.op \in { "handle_message", "handle_text" } /\ handled.msg = AliceMessage) =>
        /\ handled.result.kind = "return"
        /\ handled.result.value =
               GroupMessageEvent(AliceMessage,
                   << Mention(<< "wx_alice" >>), Text(<< " ", "h", "e", "l", "l", "o" >>) >>)

\* What the code does with that raw message: atuserlist is the root of the
\* document, find looks among the children of the root, so handle_text
\* takes the message for one without mentions.
C14_AliceHelloIsOneText ==
    (handled.op = "handle_text" /\ handled.msg = AliceMessage) =>
        handled.result = Return(GroupMessageEvent(AliceMessage, << Text(AliceHello) >>))

IsGroupVariant(event) == "group_id" \in DOMAIN event

\* C18: every event normalization produces is a group variant exactly when
\* the sender of the raw message holds "@chatroom", for every handler.
C18_GroupExactlyForChatroom ==
    (handled.op # "none" /\ handled.result.kind = "return"
        /\ ~IsNone(handled.result.value)) =>
        (IsGroupVariant(handled.result.value) <=> Contains(handled.msg.sender, "@chatroom"))

\* ---------------------------------------------------------------- C22
RegisteredType(msg) == msg.type \in DOMAIN HANDLE_DICT

\* C22: for every raw message of a registered type, handle_message calls
\* the registered handler on the message and returns exactly what the
\* handler gives for it; the call itself does not fail.
C22_HandlerResultIsReturned ==
    (handled.op = "handle_message" /\ RegisteredType(handled.msg)) =>
        handled.result = HandlerBody(HANDLE_DICT[handled.msg.type], handled.msg)

\* What handle_message does for a registered type: the plain function is
\* called with msg alone, one argument short, whatever the type.
C22_HandlerCallIsOneArgumentShort ==
    (handled.op = "handle_message" /\ RegisteredType(handled.msg)) =>
        /\ Len(Parameters(HANDLE_DICT[handled.msg.type])) = 2
        /\ handled.result = Raise("TypeError")

\* ---------------------------------------------------------------- C23
\* C23: handle_app dispatches on the sub-type of the appmsg element: a
\* sub-type without app handler gives None and no error, one with an app
\* handler gives exactly what that handler gives for the message and the
\* appmsg element.
C23_AppSubtypeDispatch ==
    (handled.op = "handle_app" /\ HasSubtype(handled.msg)) =>
        handled.result =
            IF SubtypeHandler(handled.msg) = "None" THEN Return(PyNone)
            ELSE AppHandlerBody(SubtypeHandler(handled.msg), handled.msg, AppOf(handled.msg))

\* What handle_app does: None for a sub-type without handler; a handler
\* there is is called with self, msg and app, one argument short.
C23_AppHandlerCallIsOneArgumentShort ==
    (handled.op = "handle_app" /\ HasSubtype(handled.msg)) =>
        handled.result =
            IF SubtypeHandler(handled.msg) = "None" THEN Return(PyNone)
            ELSE Raise("TypeError")

\* ---------------------------------------------------------------- C26
\* handle_text was given a text message with a mention list.
HasMentionList ==
    /\ handled.op = "handle_text"
    /\ handled.msg.extrainfo.wellformed
    /\ ~IsNone(find(handled.msg.extrainfo.root, "atuserlist"))
    /\ ~IsNone(find(handled.msg.extrainfo.root, "atuserlist").text)

\* The number of mention segments among the first i segments.
MentionsUpTo(message, i) ==
    Cardinality({ j \in 1..i : message[j].type \in { "mention", "mention_all" } })

\* The message pairs the markers of the text with the identifiers: its
\* k-th mention segment is that of the k-th identifier, there are as many
\* as there are markers and identifiers for them, and with each mention
\* segment read as the marker of its rank the segments spell the text, in
\* order.
PairsInOrder(message, text, at_list) ==
    LET rank(i) == MentionsUpTo(message, i)
        mentions == { i \in 1..Len(message) : message[i].type # "text" }
        piece(i) == IF message[i].type = "text" THEN message[i].data
                    ELSE SubSeq(text, NthMarker(text, rank(i)),
                                MatchEnd(text, NthMarker(text, rank(i))))
    IN /\ Cardinality(mentions) =
             (IF Len(at_list) < Cardinality(MarkerStarts(text)) THEN Len(at_list)
              ELSE Cardinality(MarkerStarts(text)))
       /\ \A i \in mentions :
             message[i] = (IF at_list[rank(i)] = NotifyAll THEN MentionAll
                           ELSE Mention(at_list[rank(i)]))
       /\ Join([ i \in 1..Len(message) |-> piece(i) ]) = text

\* C26: for a text message with a mention list handle_text gives an event
\* whose message pairs the k-th marker with the k-th identifier
\* (mention_all for "notify@all", mention otherwise) and keeps the text
\* pieces between the markers as text segments, in their order.
C26_MarkersPairWithIdentifiers ==
    HasMentionList =>
        /\ handled.result.kind = "return"
        /\ PairsInOrder(handled.result.value.message, handled.msg.message,
                        AtList(find(handled.msg.extrainfo.root, "atuserlist")))

\* What handle_text does with a mention list: its loop builds that message
\* and the return statement raises before an event is made of it.
C26_LoopPairsThenRaises ==
    HasMentionList =>
        /\ handled.result = [ Raise("UnboundLocalError") EXCEPT
                                !.new_msg = handled.result.new_msg ]
        /\ PairsInOrder(handled.result.new_msg, handled.msg.message,
                        AtList(find(handled.msg.extrainfo.root, "atuserlist")))

\* ---------------------------------------------------------------- C27
\* A value is a path of the local filesystem.
IsLocalPath(v) == "dir" \in DOMAIN v /\ v # NoFilePath

\* The segment holds a local path: in the file of a media segment, in the
\* image of a link.
ExposesPath(segment) ==
    CASE segment.type \in { "image", "voice", "video", "file" } -> IsLocalPath(segment.data)
      [] segment.type = "link" -> IsLocalPath(segment.data.image)
      [] OTHER -> FALSE

\* The operation has returned an event with a message.
ReturnedMessage ==
    /\ handled.op # "none"
    /\ handled.result.kind = "return"
    /\ "message" \in DOMAIN handled.result.value

\* C27: no event carries a path of the local filesystem: media segments
\* hold the file id the cache returned, and no other segment, the link
\* with its preview image included, holds a local path.
C27_NoSegmentExposesPath ==
    ReturnedMessage =>
        \A i \in 1..Len(handled.result.value.message) :
            ~ExposesPath(handled.result.value.message[i])

\* What the handlers do: media segments hold a file id; the link segment
\* of a message that has a file holds the path of that file under
\* wechat_path.
C27_LinkImageIsLocalPath ==
    ReturnedMessage =>
        \A i \in 1..Len(handled.result.value.message) :
            LET segment == handled.result.value.message[i]
            IN ExposesPath(segment) <=>
                  /\ segment.type = "link"
                  /\ handled.msg.filepath # NoFilePath
                  /\ segment.data.image = Under(wechat_path, handled.msg.filepath)

\* ---------------------------------------------------------------- C28
\* The media handlers and the kind of segment of each.
MediaKind ==
    [ handle_image |-> "image", handle_emoji |-> "image", handle_voice |-> "voice",
      handle_video |-> "video", handle_file |-> "file" ]

\* The message has the media its handler caches: an image file that is
\* there, an emoji with its url, a downloaded file.
HasMedia(op, msg) ==
    CASE op = "handle_image" ->
            ~IsNone(FindFile(Path(image_path, << Stem(msg.filepath), "" >>)))
      [] op = "handle_emoji" ->
            /\ msg.message.wellformed
            /\ ~IsNone(find(msg.message.root, "emoji"))
            /\ HasAttrib(find(msg.message.root, "emoji"), "cdnurl")
      [] op = "handle_file" ->
            /\ ~IsNone(find(AppOf(msg), "appattach"))
            /\ ~IsNone(find(find(AppOf(msg), "appattach"), "overwrite_newmsgid"))
      [] OTHER -> TRUE

\* C28: each media handler gives an event whose one segment is of the
\* kind of its media and holds the cached file id: image for an image or
\* an emoji, voice for a voice message, video for a video, file for a
\* downloaded file.
C28_SegmentOfMediaKind ==
    (handled.op \in DOMAIN MediaKind /\ HasMedia(handled.op, handled.msg)) =>
        /\ handled.result.kind = "return"
        /\ "message" \in DOMAIN handled.result.value
        /\ Len(handled.result.value.message) = 1
        /\ handled.result.value.message[1].type = MediaKind[handled.op]
        /\ "file_id" \in DOMAIN handled.result.value.message[1].data

\* What the media handlers do: the voice handler gives an image segment,
\* the image handler raises at _find_file, the others give their kind.
C28_VoiceIsAnImageSegment ==
    (handled.op \in DOMAIN MediaKind /\ HasMedia(handled.op, handled.msg)) =>
        IF handled.op = "handle_image" THEN handled.result = Raise("TypeError")
        ELSE /\ handled.result.kind = "return"
             /\ handled.result.value.message[1].type =
                    (IF handled.op = "handle_voice" THEN "image" ELSE MediaKind[handled.op])
             /\ "file_id" \in DOMAIN handled.result.value.message[1].data

\* ---------------------------------------------------------------- C24
\* The event the system notice of a raw message is, by its literal body.
SysNotice(msg) ==
    IF msg.message = RedBagBody
    THEN (IF Contains(msg.sender, "@chatroom") THEN GetGroupRedBagNotice(msg)
          ELSE GetPrivateRedBagNotice(msg))
    ELSE IF Contains(msg.message, PokeMark)
    THEN (IF Contains(msg.sender, "@chatroom") THEN GetGroupPokeNotice(msg)
          ELSE GetPrivatePokeNotice(msg))
    ELSE PyNone

\* C24: handle_sys tries the system handlers in registration order and
\* returns the first result that is not None, None when there is none: the
\* red packet body gives the red packet notice, a body with the poke mark
\* the poke notice, any other body no event.
C24_SysHandlersInOrder ==
    handled.op = "handle_sys" => handled.result = Return(SysNotice(handled.msg))

\* What handle_sys does: the first handler is called with msg alone and
\* the call raises; called on their class the handlers tell the bodies
\* apart.
C24_SysHandlerCallRaises ==
    /\ handled.op = "handle_sys" => handled.result = Raise("TypeError")
    /\ handled.op = "read_bag" =>
          handled.result.value = (IF handled.msg.message = RedBagBody
                                  THEN SysNotice(handled.msg) ELSE PyNone)
    /\ handled.op = "poke" =>
          handled.result.value = (IF Contains(handled.msg.message, PokeMark)
                                  THEN SysNotice(handled.msg) ELSE PyNone)

\* ---------------------------------------------------------------- C25
IsDeleteEvent(v) ==
    ~IsNone(v) /\ v.event \in { "GroupMessageDeleteEvent", "PrivateMessageDeleteEvent" }

C21_PerConnectionFifo ==
    last.op = "handle_event" => last.input = 1

\* What _handle_ws gives: the completing task is one of those pending, and
\* the read loop goes on to the next frame with tasks still pending.
C21_HandlingIsNotAwaited ==
    /\ last.op = "handle_event" => last.input \in 1..MaxPending
    /\ (last.op = "read" /\ last.handed) => ws[last.ep].pending \in 1..MaxPending

\* ---------------------------------------------------------------- C29
\* The models get_event_model yields for the state's frame, and the data
\* they are tried against.
Candidates == get_event_model(last.input.event_models).yielded
Unflattened == flattened_to_nested(last.input.json_data)

====
